---- MODULE Spec2Model ----
(***************************************************************************)
(* Verification model of the LAZAR fabrication tools:                      *)
(*   - the placement sampler of the Bedazzle tool                          *)
(*       (src/lazar/assets/bedazzle.js, computeGemPositions), and          *)
(*   - the tone mapper and the settings reader of the 3D Engrave tool      *)
(*       (src/unnamed/part_003, buildMappingLut / readSettings /           *)
(*        runProcessing).                                                  *)
(*                                                                         *)
(* Arithmetic.  The JavaScript code computes in IEEE doubles; the model    *)
(* computes the same expressions in exact rational arithmetic over         *)
(* integers.  Lengths in millimetres are integers in "ticks" of            *)
(* 1/TicksPerMM mm, chosen so that half a diameter, a gap of 50 % and the  *)
(* hexagonal row pitch spacing*sqrt(3)/2 (sqrt(3)/2 taken as the           *)
(* convergent Sqrt3HalfNum/Sqrt3HalfDen = 2521/2911, relative error 2e-8)  *)
(* are all integral.  Math.round(n/d) is RoundDiv(n, d), Math.floor(n/d)   *)
(* is n \div d (all operands are non-negative).                            *)
(***************************************************************************)
EXTENDS Integers, Sequences, FiniteSets, TLC

VARIABLES
    \* --- placement sampler (bedazzle.js) ---
    opts,        \* the argument object of the current computeGemPositions call
    positions,   \* the array it returned (<<>> before the call returns)
    gemPc,       \* "call" before the call, "returned" after it, "idle" if unused
    \* --- tone mapper (part_003) ---
    grayValues,  \* the argument of the current buildMappingLut call
    lut,         \* the table it returned (<<>> before the call returns)
    lutPc,       \* "call" before the call, "returned" after it, "idle" if unused
    \* --- 3D Engrave tool (part_003, second copy of the tool) ---
    grayField,          \* value of #e3d-gray-values, as its comma-separated pieces
    customGrayValues,   \* state.settings.customGrayValues
    stateFile,          \* state.file
    loading,            \* files whose FileReader / Image load is under way
    originalImg,        \* state.originalImg
    resultData,         \* state.resultData, as the tone table that produced it
    processing,         \* state.processing
    liveTimer,          \* the live-update timer is armed
    runQueue,           \* the queued requestAnimationFrame/setTimeout callbacks
    statusEl,           \* content of #e3d-status: "", "spinner" or "error"
    processBtnDisabled, \* #e3d-process-btn.disabled
    lastRun,            \* history: the request the last processImage ran for
    dpiField,           \* value of #e3d-dpi, as its characters
    driverDpi,          \* state.settings.driverDpi
    resultDpi,          \* state.resultDpi (0 before the first result)
    \* --- one call of a stage of the image-analysis core ---
    stageCall,   \* the function called and its arguments
    stageHeap,   \* the arrays that exist, by reference 1, 2, ...
    stageRet,    \* what the call returned (<<>> before it returns)
    stageTrace,  \* the buffers processImage went through (<<>> otherwise)
    stagePc,     \* "call" before the call, "returned" after it, "idle" if unused
    \* --- Bedazzle tool (bedazzle.js), the state render() works on ---
    pixelInfo,      \* pixelInfo: the loaded image, <<>> while there is none
    widthInput,     \* parseFloat(widthInput.value), as [nan, val] in ticks
    heightInput,    \* parseFloat(heightInput.value), as [nan, val] in ticks
    mode,           \* mode
    edgeMag,        \* edgeMag: the cached edge magnitudes, <<>> for null
    renderTimer,    \* the render debounce timer is armed
    lastPositions,  \* lastPositions
    lastRender,     \* history: the canvas size the sampler last ran with
    lastDownload,   \* history: what the last Download click wrote and read
    \* --- download interceptor (dpifix.js) ---
    lazarDpi,          \* window.__lazarDpi
    anchorHref,        \* the anchor's href: <<>> or [scheme, file]
    anchorDownload,    \* the anchor's download attribute: "" or a file extension
    pendingDownloads,  \* the anchor is in pendingDownloads
    fetches,           \* the fetch(href) promises not yet settled
    lastSaved,         \* history: the file the browser last saved, and the DPI then
    \* --- dithering fix (ditherfix.js) ---
    backupData,     \* content of the hidden backup canvas (Ne), <<>> while none
    displayData,    \* content of the display canvas (ye), <<>> while none
    pristineData,   \* pristineData with pristineW x pristineH, <<>> for null
    snapshotReady,  \* snapshotReady
    prevSize,       \* prevW x prevH as the poll loop last saw them (0 at start)
    modalOpen,      \* a crop / resize / text modal is in the DOM
    modalWasOpen,   \* modalWasOpen
    snapshotTimers, \* the armed 300 ms timers, by who armed them
    ditherInput     \* history: the backup content the host's dither handler read

gemVars == <<opts, positions, gemPc>>
lutVars == <<grayValues, lut, lutPc>>
e3dVars == <<grayField, customGrayValues, stateFile, loading, originalImg,
             resultData, processing, liveTimer, runQueue, statusEl,
             processBtnDisabled, lastRun, dpiField, driverDpi, resultDpi>>
stageVars == <<stageCall, stageHeap, stageRet, stageTrace, stagePc>>
bdzVars == <<pixelInfo, widthInput, heightInput, mode, edgeMag, renderTimer,
             lastPositions, lastRender, lastDownload>>
dpifixVars == <<lazarDpi, anchorHref, anchorDownload, pendingDownloads,
                fetches, lastSaved>>
ditherVars == <<backupData, displayData, pristineData, snapshotReady, prevSize,
                modalOpen, modalWasOpen, snapshotTimers, ditherInput>>
vars == <<gemVars, lutVars, e3dVars, stageVars, bdzVars, dpifixVars, ditherVars>>

\* The parts of the state a specification does not exercise.
GemIdle == opts = <<>> /\ positions = <<>> /\ gemPc = "idle"
LutIdle == grayValues = <<>> /\ lut = <<>> /\ lutPc = "idle"
E3dIdle ==
    /\ grayField = <<>> /\ customGrayValues = <<>> /\ stateFile = 0
    /\ loading = {} /\ originalImg = 0 /\ resultData = <<>>
    /\ processing = FALSE /\ liveTimer = FALSE /\ runQueue = <<>>
    /\ statusEl = "" /\ processBtnDisabled = TRUE /\ lastRun = <<>>
    /\ dpiField = <<>> /\ driverDpi = 0 /\ resultDpi = 0
StageIdle ==
    /\ stageCall = <<>> /\ stageHeap = <<>> /\ stageRet = <<>>
    /\ stageTrace = <<>> /\ stagePc = "idle"
BdzIdle ==
    /\ pixelInfo = <<>> /\ widthInput = <<>> /\ heightInput = <<>> /\ mode = ""
    /\ edgeMag = <<>> /\ renderTimer = FALSE /\ lastPositions = <<>>
    /\ lastRender = <<>> /\ lastDownload = <<>>
DpifixIdle ==
    /\ lazarDpi = 0 /\ anchorHref = <<>> /\ anchorDownload = ""
    /\ pendingDownloads = FALSE /\ fetches = <<>> /\ lastSaved = <<>>
DitherIdle ==
    /\ backupData = <<>> /\ displayData = <<>> /\ pristineData = <<>>
    /\ snapshotReady = FALSE /\ prevSize = 0 /\ modalOpen = FALSE
    /\ modalWasOpen = FALSE /\ snapshotTimers = {} /\ ditherInput = <<>>

-----------------------------------------------------------------------------
(* Numeric helpers                                                         *)

Max(a, b) == IF a >= b THEN a ELSE b
Min(a, b) == IF a <= b THEN a ELSE b

\* Math.round(n / d) for n >= 0, d > 0: round half up.
RoundDiv(n, d) == (2 * n + d) \div (2 * d)

\* sqrt(3)/2 as the continued-fraction convergent 2521/2911.
Sqrt3HalfNum == 2521
Sqrt3HalfDen == 2911

\* Ticks per millimetre: eighths of a millimetre times Sqrt3HalfDen.
TicksPerMM == 8 * Sqrt3HalfDen

\* x eighths of a millimetre, in ticks.
Eighths(x) == x * Sqrt3HalfDen
Mm(x) == x * TicksPerMM

-----------------------------------------------------------------------------
(* Placement sampler: src/lazar/assets/bedazzle.js                         *)

\* brightness(r, g, b) = 0.299 r + 0.587 g + 0.114 b, times 1000.
brightness(r, g, b) == 299 * r + 587 * g + 114 * b

\* A pixel is <<r, g, b, a>>; imageData is a function from the pixel index
\* py * imgW + px to the pixel (src[idx .. idx + 3] with idx = 4 * index).
RED == 1
GREEN == 2
BLUE == 3
ALPHA == 4

\* const radius = gemDiameter / 2;
gemRadius(o) == o.gemDiameter \div 2

\* const spacing = gemDiameter * (1 + (gap || 0));   gap is held in percent.
gemSpacing(o) == (o.gemDiameter * (100 + o.gap)) \div 100

\* const rowSpacing = gridType === 'hex' ? spacing * Math.sqrt(3) / 2 : spacing;
gemRowSpacing(o) ==
    IF o.gridType = "hex"
    THEN (gemSpacing(o) * Sqrt3HalfNum) \div Sqrt3HalfDen
    ELSE gemSpacing(o)

\* const cols = Math.max(1, Math.floor(widthMM / spacing));
gemCols(o) == Max(1, o.widthMM \div gemSpacing(o))

\* const rows = Math.max(1, Math.floor(heightMM / rowSpacing));
gemRows(o) == Max(1, o.heightMM \div gemRowSpacing(o))

\* const gemPxR = Math.max(1, Math.round(radius * Math.min(scaleX, scaleY)));
\* with scaleX = imgW / widthMM and scaleY = imgH / heightMM.
gemPxR(o) ==
    IF o.imgW * o.heightMM <= o.imgH * o.widthMM
    THEN Max(1, RoundDiv(gemRadius(o) * o.imgW, o.widthMM))
    ELSE Max(1, RoundDiv(gemRadius(o) * o.imgH, o.heightMM))

\* const step = Math.max(1, Math.floor(gemPxR / 4));
gemStep(o) == Max(1, gemPxR(o) \div 4)

\* const yMM = radius + row * rowSpacing;
cellY(o, row) == gemRadius(o) + row * gemRowSpacing(o)

\* const hexOffset = (gridType === 'hex' && row % 2 === 1) ? spacing / 2 : 0;
hexOffset(o, row) ==
    IF o.gridType = "hex" /\ row % 2 = 1 THEN gemSpacing(o) \div 2 ELSE 0

\* const maxCols = (gridType === 'hex' && row % 2 === 1) ? cols - 1 : cols;
maxCols(o, row) ==
    IF o.gridType = "hex" /\ row % 2 = 1 THEN gemCols(o) - 1 ELSE gemCols(o)

\* Mutant: the columns of a row are laid out from right to left.
cellXMirrored(o, row, col) ==
    gemRadius(o) + hexOffset(o, row) + (maxCols(o, row) - 1 - col) * gemSpacing(o)

\* const xMM = radius + hexOffset + col * spacing;
cellX(o, row, col) == gemRadius(o) + hexOffset(o, row) + col * gemSpacing(o)

\* Mutant: the edge test forgets the canvas height.
offCanvasWidthOnly(xMM, yMM, radius, widthMM, heightMM) ==
    xMM + radius > widthMM

\* if (xMM + radius > widthMM || yMM + radius > heightMM) continue;
offCanvas(xMM, yMM, radius, widthMM, heightMM) ==
    xMM + radius > widthMM \/ yMM + radius > heightMM

\* const cx = Math.round(xMM * scaleX);  const cy = Math.round(yMM * scaleY);
cellCx(o, row, col) == RoundDiv(cellX(o, row, col) * o.imgW, o.widthMM)
cellCy(o, row) == RoundDiv(cellY(o, row) * o.imgH, o.heightMM)

\* The offsets the loops "for (d = -gemPxR; d <= gemPxR; d += step)" visit,
\* in loop order.
sampleOffsets(o) ==
    [k \in 1 .. ((2 * gemPxR(o)) \div gemStep(o)) + 1 |->
        (k - 1) * gemStep(o) - gemPxR(o)]

\* The pixel indices py * imgW + px the two sampling loops read for a cell
\* centred on (cx, cy), in loop order (dy outer, dx inner): offsets outside
\* the disc and pixels outside the image are skipped.
RECURSIVE sampleRow(_, _, _, _, _)
sampleRow(o, cx, cy, dy, dxs) ==
    IF dxs = <<>> THEN <<>>
    ELSE LET dx == Head(dxs)
             px == cx + dx
             py == cy + dy
             rest == sampleRow(o, cx, cy, dy, Tail(dxs))
         IN  IF dx * dx + dy * dy > gemPxR(o) * gemPxR(o) THEN rest
             ELSE IF px < 0 \/ px >= o.imgW \/ py < 0 \/ py >= o.imgH THEN rest
             ELSE <<py * o.imgW + px>> \o rest

RECURSIVE sampleRows(_, _, _, _)
sampleRows(o, cx, cy, dys) ==
    IF dys = <<>> THEN <<>>
    ELSE sampleRow(o, cx, cy, Head(dys), sampleOffsets(o))
             \o sampleRows(o, cx, cy, Tail(dys))

samplePixels(o, cx, cy) == sampleRows(o, cx, cy, sampleOffsets(o))

\* Sum of one channel over the sampled pixels (rSum, gSum, bSum, aSum).
RECURSIVE chanSum(_, _, _)
chanSum(src, idxs, c) ==
    IF idxs = <<>> THEN 0 ELSE src[Head(idxs)][c] + chanSum(src, Tail(idxs), c)

\* brSum: the summed brightness of the sampled pixels, times 1000.
RECURSIVE brSum(_, _)
brSum(src, idxs) ==
    IF idxs = <<>> THEN 0
    ELSE LET p == src[Head(idxs)]
         IN  brightness(p[RED], p[GREEN], p[BLUE]) + brSum(src, Tail(idxs))

\* if (aSum / cnt < 10) continue;
alphaTooLow(aSum, cnt) == aSum < 10 * cnt

\* Mutant: the comparison with the threshold is inclusive.
thresholdPlaceInclusive(brSum1000, cnt, threshold) ==
    brSum1000 <= threshold * 1000 * cnt

\* Mutant: the comparison with the threshold is reversed.
thresholdPlaceReversed(brSum1000, cnt, threshold) ==
    brSum1000 > threshold * 1000 * cnt

\* place = (brSum / cnt) < threshold;   (brSum is held times 1000)
thresholdPlace(brSum1000, cnt, threshold) == brSum1000 < threshold * 1000 * cnt

\* Mutant: the mask is indexed with the rounded centre as it is.
maskIndexUnclamped(o, cx, cy) == cy * o.imgW + cx

\* The index of the mask entry the edge branch reads:
\* mx = Math.min(cx, imgW - 1); my = Math.min(cy, imgH - 1); my * imgW + mx.
maskIndex(o, cx, cy) == Min(cy, o.imgH - 1) * o.imgW + Min(cx, o.imgW - 1)

\* place = edgeMask[my * imgW + mx] === 1, with mx, my clamped to the image;
\* place stays false when there is no mask (null is the empty function), and
\* an index outside the mask reads undefined, which is not 1.
edgePlace(o, cx, cy) ==
    IF DOMAIN o.edgeMask = {} THEN FALSE
    ELSE LET i == maskIndex(o, cx, cy)
         IN  i \in DOMAIN o.edgeMask /\ o.edgeMask[i] = 1

\* Mutant: there is no fill branch, fill falls through to the threshold test.
placeDecisionNoFill(o, cx, cy) ==
    IF o.mode = "edge" THEN edgePlace(o, cx, cy)
    ELSE LET idxs == samplePixels(o, cx, cy)
             cnt == Len(idxs)
         IN  IF cnt = 0 THEN FALSE
             ELSE IF alphaTooLow(chanSum(o.imageData, idxs, ALPHA), cnt) THEN FALSE
             ELSE thresholdPlace(brSum(o.imageData, idxs), cnt, o.threshold)

\* The placement decision of one cell: FALSE for the two `continue`s of the
\* threshold branch, otherwise the value of `place`.
placeDecision(o, cx, cy) ==
    IF o.mode = "edge" THEN edgePlace(o, cx, cy)
    ELSE IF o.mode = "fill" THEN TRUE
    ELSE LET idxs == samplePixels(o, cx, cy)
             cnt == Len(idxs)
         IN  IF cnt = 0 THEN FALSE
             ELSE IF alphaTooLow(chanSum(o.imageData, idxs, ALPHA), cnt) THEN FALSE
             ELSE thresholdPlace(brSum(o.imageData, idxs), cnt, o.threshold)

\* The colour sampling of a placed cell: <<>> when the cell is dropped
\* (cnt2 === 0 or mean alpha below 10), else the one element pushed.
colourSample(o, xMM, yMM, cx, cy) ==
    LET idxs == samplePixels(o, cx, cy)
        cnt2 == Len(idxs)
    IN  IF cnt2 = 0 THEN <<>>
        ELSE IF alphaTooLow(chanSum(o.imageData, idxs, ALPHA), cnt2) THEN <<>>
        ELSE << [x |-> xMM, y |-> yMM,
                 r |-> RoundDiv(chanSum(o.imageData, idxs, RED), cnt2),
                 g |-> RoundDiv(chanSum(o.imageData, idxs, GREEN), cnt2),
                 b |-> RoundDiv(chanSum(o.imageData, idxs, BLUE), cnt2),
                 a |-> RoundDiv(chanSum(o.imageData, idxs, ALPHA), cnt2)] >>

\* The body of the inner loop for one candidate cell: what it pushes.
gemCell(o, row, col) ==
    LET xMM == cellX(o, row, col)
        yMM == cellY(o, row)
        cx == cellCx(o, row, col)
        cy == cellCy(o, row)
    IN  IF offCanvas(xMM, yMM, gemRadius(o), o.widthMM, o.heightMM) THEN <<>>
        ELSE IF ~placeDecision(o, cx, cy) THEN <<>>
        ELSE colourSample(o, xMM, yMM, cx, cy)

\* for (let col = 0; col < maxCols; col++) ...
RECURSIVE gemRowLoop(_, _, _)
gemRowLoop(o, row, col) ==
    IF col >= maxCols(o, row) THEN <<>>
    ELSE gemCell(o, row, col) \o gemRowLoop(o, row, col + 1)

\* for (let row = 0; row < rows; row++) ...
RECURSIVE gemLoop(_, _)
gemLoop(o, row) ==
    IF row >= gemRows(o) THEN <<>>
    ELSE gemRowLoop(o, row, 0) \o gemLoop(o, row + 1)

computeGemPositions(o) == gemLoop(o, 0)

\* computeTotalSlots: the closed-form slot count shown next to the placed count.
computeTotalSlots(o) ==
    IF o.gridType = "hex"
    THEN LET fullRows == (gemRows(o) + 1) \div 2
             oddRows == gemRows(o) \div 2
         IN  fullRows * gemCols(o) + oddRows * Max(gemCols(o) - 1, 0)
    ELSE gemCols(o) * gemRows(o)

-----------------------------------------------------------------------------
(* The calls of computeGemPositions that are explored                      *)

\* Largest side, in pixels, of the small images; BigImg is the side of the
\* one large image size, large enough for a sampling step above 1.
MaxImg == 2
BigImg == 24

BLACK == <<0, 0, 0, 255>>
WHITE == <<255, 255, 255, 255>>
TAN == <<200, 100, 50, 255>>
CLEAR == <<0, 0, 0, 0>>

OpaqueColours == {BLACK, WHITE, TAN}
TwoTone == {BLACK, WHITE, CLEAR}

\* Pixel buffers as getImageData returns them: uniform, split into a left
\* and a right half, or a checkerboard of two colours.
pixelBuffer(w, h, kind, p, q) ==
    [i \in 0 .. w * h - 1 |->
        LET x == i % w
            y == i \div w
        IN  CASE kind = "uniform" -> p
              [] kind = "split" -> IF 2 * x < w THEN p ELSE q
              [] kind = "checker" -> IF (x + y) % 2 = 0 THEN p ELSE q]

ImgSizes == ((1 .. MaxImg) \X (1 .. MaxImg)) \cup {<<BigImg, BigImg>>}

PixelBuffers(w, h) ==
    {pixelBuffer(w, h, "uniform", p, p) : p \in OpaqueColours \cup {CLEAR}}
    \cup {pixelBuffer(w, h, k, pq[1], pq[2]) :
            k \in {"split", "checker"},
            pq \in {pq \in TwoTone \X TwoTone : pq[1] # pq[2]}}

\* Edge masks as buildEdgeMask returns them (Uint8Array of 0/1), or no mask.
noMask == <<>>

EdgeMasks(w, h) ==
    {noMask,
     [i \in 0 .. w * h - 1 |-> 1],
     [i \in 0 .. w * h - 1 |-> IF ((i % w) + (i \div w)) % 2 = 0 THEN 1 ELSE 0]}

\* Canvas sizes, gem diameters (GEM_SIZES: SS6 2 mm, SS16 4 mm, SS30 6.5 mm),
\* gaps in percent, thresholds.
CanvasWidths == {Mm(3), Mm(10)}
CanvasHeights == {Mm(7), Mm(10)}
GemDiameters == {Eighths(16), Eighths(32), Eighths(52)}
Gaps == {0, 50}
Thresholds == {0, 128, 256}
GridTypes == {"square", "hex"}

\* mode, threshold and mask of a call: the threshold is read in threshold
\* mode only and the mask in edge mode only.
ModeArgs(w, h) ==
    {<<"fill", 0, noMask>>}
    \cup {<<"threshold", t, noMask>> : t \in Thresholds}
    \cup {<<"edge", 0, m>> : m \in EdgeMasks(w, h)}

GemInit ==
    /\ \E wh \in ImgSizes :
         \E img \in PixelBuffers(wh[1], wh[2]), ma \in ModeArgs(wh[1], wh[2]),
            cw \in CanvasWidths, ch \in CanvasHeights, d \in GemDiameters,
            gp \in Gaps, gt \in GridTypes :
           opts = [imageData |-> img, imgW |-> wh[1], imgH |-> wh[2],
                   widthMM |-> cw, heightMM |-> ch, gemDiameter |-> d, gap |-> gp,
                   gridType |-> gt, mode |-> ma[1], threshold |-> ma[2],
                   edgeMask |-> ma[3]]
    /\ positions = <<>>
    /\ gemPc = "call"
    /\ LutIdle
    /\ E3dIdle
    /\ StageIdle
    /\ BdzIdle
    /\ DpifixIdle
    /\ DitherIdle

\* lastPositions = computeGemPositions({...})
CallComputeGemPositions ==
    /\ gemPc = "call"
    /\ positions' = computeGemPositions(opts)
    /\ gemPc' = "returned"
    /\ UNCHANGED <<opts, lutVars, e3dVars, stageVars, bdzVars, dpifixVars, ditherVars>>

GemNext == CallComputeGemPositions

SpecGem == GemInit /\ [][GemNext]_vars

-----------------------------------------------------------------------------
(* Properties of the placement sampler                                     *)

\* The (x, y) coordinates of a list of placed elements, in list order.
XY(ps) == [i \in 1 .. Len(ps) |-> <<ps[i].x, ps[i].y>>]

\* Every pixel of the buffer has alpha 255 / the buffer is one colour.
FullyOpaque(img) == \A i \in DOMAIN img : img[i][ALPHA] = 255
Uniform(img) == \A i, j \in DOMAIN img : img[i] = img[j]

\* The candidate cells the two loops visit.
CandidateCells(o) ==
    {rc \in (0 .. gemRows(o) - 1) \X (0 .. gemCols(o) - 1) : rc[2] < maxCols(o, rc[1])}

\* The candidate cells whose footprint passes the canvas edge.
EdgeRejected(o) ==
    {rc \in CandidateCells(o) :
        \/ cellX(o, rc[1], rc[2]) + gemRadius(o) > o.widthMM
        \/ cellY(o, rc[1]) + gemRadius(o) > o.heightMM}

\* The end-to-end scenario: 10 x 10 mm canvas, 4 mm elements, no gap, square
\* grid, fill mode, a fully opaque uniform image.
Scenario10x10 ==
    /\ opts.widthMM = Mm(10) /\ opts.heightMM = Mm(10)
    /\ opts.gemDiameter = Mm(4) /\ opts.gap = 0
    /\ opts.gridType = "square" /\ opts.mode = "fill"
    /\ FullyOpaque(opts.imageData) /\ Uniform(opts.imageData)

\* C1: in the end-to-end scenario, whatever the pixel dimensions of the
\* image, the call returns exactly the four elements (2,2), (6,2), (2,6),
\* (6,6) mm, in this order.
C1_ScenarioFourElements ==
    (gemPc = "returned" /\ Scenario10x10) =>
        XY(positions) = << <<Mm(2), Mm(2)>>, <<Mm(6), Mm(2)>>,
                           <<Mm(2), Mm(6)>>, <<Mm(6), Mm(6)>> >>

\* C2: in fill mode on a fully opaque image the number of elements returned
\* is the closed-form slot count minus the number of candidate cells
\* rejected at the canvas edge; no cell is dropped for another reason.
C2_FillCountClosedForm ==
    (gemPc = "returned" /\ opts.mode = "fill" /\ FullyOpaque(opts.imageData)) =>
        Len(positions) = computeTotalSlots(opts) - Cardinality(EdgeRejected(opts))

\* The same call in another mode, at another threshold, on another image.
WithMode(o, m) == [o EXCEPT !.mode = m]
WithThreshold(o, t) == [o EXCEPT !.threshold = t]

\* C3: in threshold mode, threshold 0 places nothing and threshold 256
\* places exactly the elements fill mode places on the same image, canvas
\* and grid.
C3_ThresholdExtremes ==
    (gemPc = "returned" /\ opts.mode = "threshold") =>
        /\ opts.threshold = 0 => positions = <<>>
        /\ opts.threshold = 256 =>
               positions = computeGemPositions(WithMode(opts, "fill"))

\* Witness of C3: a threshold-256 call that placed elements on an image that
\* is not fully opaque (so some cells were dropped as transparent).
C3_Witness ==
    /\ gemPc = "returned" /\ opts.mode = "threshold" /\ opts.threshold = 256
    /\ positions # <<>>
    /\ ~FullyOpaque(opts.imageData)
    /\ Len(positions) < Cardinality(CandidateCells(opts) \ EdgeRejected(opts))

\* The elements of a list, as a set.
Elements(ps) == {ps[i] : i \in 1 .. Len(ps)}

\* C4: the set of elements placed in threshold mode grows with the
\* threshold: an element placed at the threshold of the call is placed, at
\* the same coordinates, at every larger threshold.
C4_ThresholdMonotone ==
    (gemPc = "returned" /\ opts.mode = "threshold") =>
        \A t2 \in Thresholds :
            t2 >= opts.threshold =>
                Elements(positions)
                    \subseteq Elements(computeGemPositions(WithThreshold(opts, t2)))

\* Witness of C4: a call at a middle threshold that placed some elements,
\* and strictly fewer than the largest threshold places.
C4_Witness ==
    /\ gemPc = "returned" /\ opts.mode = "threshold"
    /\ opts.threshold > 0 /\ opts.threshold < 256
    /\ positions # <<>>
    /\ Len(positions) < Len(computeGemPositions(WithThreshold(opts, 256)))

\* C5: every element returned, in every mode and for both grid types, has
\* its whole circular footprint inside the canvas.
C5_FootprintInsideCanvas ==
    gemPc = "returned" =>
        \A i \in 1 .. Len(positions) :
            /\ positions[i].x - gemRadius(opts) >= 0
            /\ positions[i].y - gemRadius(opts) >= 0
            /\ positions[i].x + gemRadius(opts) <= opts.widthMM
            /\ positions[i].y + gemRadius(opts) <= opts.heightMM

\* Witness of C5: a call that placed elements and rejected at least one
\* candidate cell at the canvas edge.
C5_Witness ==
    /\ gemPc = "returned"
    /\ positions # <<>>
    /\ EdgeRejected(opts) # {}

\* The candidate cells inside the canvas, in loop order (row-major), as
\* (x, y) coordinates.
RECURSIVE CellSeq(_, _, _)
CellSeq(o, row, col) ==
    IF row >= gemRows(o) THEN <<>>
    ELSE IF col >= maxCols(o, row) THEN CellSeq(o, row + 1, 0)
    ELSE (IF <<row, col>> \in EdgeRejected(o) THEN <<>> ELSE << <<row, col>> >>)
             \o CellSeq(o, row, col + 1)

\* The pixels sampled under cell rc include a pixel of the image and their
\* mean alpha is at least 10.
FootprintVisible(o, rc) ==
    LET idxs == samplePixels(o, cellCx(o, rc[1], rc[2]), cellCy(o, rc[1]))
    IN  /\ idxs # <<>>
        /\ chanSum(o.imageData, idxs, ALPHA) >= 10 * Len(idxs)

RECURSIVE VisibleCells(_, _)
VisibleCells(o, cells) ==
    IF cells = <<>> THEN <<>>
    ELSE (IF FootprintVisible(o, Head(cells))
          THEN << <<cellX(o, Head(cells)[1], Head(cells)[2]), cellY(o, Head(cells)[1])>> >>
          ELSE <<>>) \o VisibleCells(o, Tail(cells))

-----------------------------------------------------------------------------
(* Tone mapper: src/unnamed/part_003, buildMappingLut                      *)

\* The elements of a set of numbers in ascending order.
RECURSIVE ascending(_)
ascending(S) ==
    IF S = {} THEN <<>>
    ELSE LET m == CHOOSE x \in S : \A y \in S : x <= y
         IN  <<m>> \o ascending(S \ {m})

\* The elements of a set of numbers in descending order.
RECURSIVE descending(_)
descending(S) ==
    IF S = {} THEN <<>>
    ELSE LET m == CHOOSE x \in S : \A y \in S : x >= y
         IN  <<m>> \o descending(S \ {m})

\* [...new Set(xs)]: the distinct values of xs in order of first occurrence.
RECURSIVE distinctInOrder(_, _)
distinctInOrder(xs, seen) ==
    IF xs = <<>> THEN <<>>
    ELSE IF Head(xs) \in seen THEN distinctInOrder(Tail(xs), seen)
    ELSE <<Head(xs)>> \o distinctInOrder(Tail(xs), seen \cup {Head(xs)})

\* Mutant: the sort comparator is reversed.
sortedLevelsDescending(gv) == descending({gv[i] : i \in 1 .. Len(gv)})

\* Mutant: the levels are deduplicated but not sorted.
sortedLevelsUnsorted(gv) == distinctInOrder(gv, {})

\* const sorted = [...new Set(grayValues)].sort((a, b) => a - b);
sortedLevels(gv) == ascending({gv[i] : i \in 1 .. Len(gv)})

\* Mutant: the breakpoints are spaced by 255 / n instead of 255 / (n - 1).
inputLevelOffByOne(i, n) == <<i * 255, n>>

\* inputLevels[i] = (i / (sorted.length - 1)) * 255, as the fraction
\* <<numerator, denominator>>; with one level the denominator is 0 and the
\* value is NaN (0 / 0).
inputLevel(i, n) == <<i * 255, n - 1>>

\* x <= q and x >= q for a fraction q; every comparison with NaN is false.
LeqLevel(x, q) == q[2] > 0 /\ x * q[2] <= q[1]
GeqLevel(x, q) == q[2] > 0 /\ x * q[2] >= q[1]

\* Math.round(sorted[i] + t * (sorted[i + 1] - sorted[i])) with
\* t = (x - inputLevels[i]) / (inputLevels[i + 1] - inputLevels[i]),
\* for inputLevels[i] = lo and inputLevels[i + 1] = hi over one denominator.
interpolate(x, lo, hi, s0, s1) ==
    LET tNum == x * lo[2] - lo[1]
        tDen == hi[1] - lo[1]
    IN  RoundDiv(s0 * tDen + tNum * (s1 - s0), tDen)

\* The search "for (let i = 0; i < inputLevels.length - 1; i++)" from index
\* i (0-based) on: the value stored for x, or 0 (the initial content of the
\* Uint8Array) when no segment holds x.
RECURSIVE lutSegment(_, _, _)
lutSegment(sorted, x, i) ==
    LET n == Len(sorted)
    IN  IF i >= n - 1 THEN 0
        ELSE IF GeqLevel(x, inputLevel(i, n)) /\ LeqLevel(x, inputLevel(i + 1, n))
        THEN interpolate(x, inputLevel(i, n), inputLevel(i + 1, n),
                         sorted[i + 1], sorted[i + 2]) % 256
        ELSE lutSegment(sorted, x, i + 1)

\* The body of "for (let x = 0; x < 256; x++)": the value of lut[x].  With
\* no level at all inputLevels[0] is undefined and both comparisons are false.
lutEntry(sorted, x) ==
    LET n == Len(sorted)
    IN  IF n > 0 /\ LeqLevel(x, inputLevel(0, n)) THEN sorted[1]
        ELSE IF n > 0 /\ GeqLevel(x, inputLevel(n - 1, n)) THEN sorted[n]
        ELSE lutSegment(sorted, x, 0)

buildMappingLut(gv) == [x \in 0 .. 255 |-> lutEntry(sortedLevels(gv), x)]

-----------------------------------------------------------------------------
(* The calls of buildMappingLut that are explored                          *)

\* Longest list of calibration levels drawn from GrayLevels.
MaxLevels == 4

GrayLevels == {0, 100, 104, 188, 200, 255}

\* DEFAULTS.customGrayValues
DefaultGrayValues == <<104, 187, 188, 216, 255>>

LevelLists ==
    UNION {[1 .. n -> GrayLevels] : n \in 0 .. MaxLevels} \cup {DefaultGrayValues}

LutInit ==
    /\ grayValues \in LevelLists
    /\ lut = <<>>
    /\ lutPc = "call"
    /\ GemIdle
    /\ E3dIdle
    /\ StageIdle
    /\ BdzIdle
    /\ DpifixIdle
    /\ DitherIdle

\* const lut = buildMappingLut(customGrayValues);
CallBuildMappingLut ==
    /\ lutPc = "call"
    /\ lut' = buildMappingLut(grayValues)
    /\ lutPc' = "returned"
    /\ UNCHANGED <<grayValues, gemVars, e3dVars, stageVars, bdzVars, dpifixVars, ditherVars>>

LutNext == CallBuildMappingLut

SpecLut == LutInit /\ [][LutNext]_vars

-----------------------------------------------------------------------------
(* Properties of the tone mapper                                           *)

LevelSet(gv) == {gv[i] : i \in 1 .. Len(gv)}

\* C7: for calibration levels [0, 255] the table is the identity.
C7_IdentityLut ==
    (lutPc = "returned" /\ grayValues = <<0, 255>>) =>
        \A x \in 0 .. 255 : lut[x] = x

C7_Witness ==
    lutPc = "returned" /\ grayValues = <<0, 255>> /\ lut[128] = 128

\* C8: for levels with at least two distinct values, input 0 maps to the
\* smallest level, input 255 to the largest, and the table never decreases,
\* so that every entry lies between the smallest and the largest level.
C8_EndpointsAndMonotone ==
    (lutPc = "returned" /\ Cardinality(LevelSet(grayValues)) >= 2) =>
        /\ \A v \in LevelSet(grayValues) : lut[0] <= v /\ v <= lut[255]
        /\ lut[0] \in LevelSet(grayValues) /\ lut[255] \in LevelSet(grayValues)
        /\ \A x \in 0 .. 254 : lut[x] <= lut[x + 1]
        /\ \A x \in 0 .. 255 : lut[0] <= lut[x] /\ lut[x] <= lut[255]

\* Witness of C8: the default calibration, 0 -> 104 and 255 -> 255.
C8_Witness ==
    /\ lutPc = "returned" /\ grayValues = DefaultGrayValues
    /\ lut[0] = 104 /\ lut[255] = 255

\* The i-th (1-based) evenly spaced input breakpoint of n levels is an
\* integer input / its value.
BreakpointIsInput(i, n) == n >= 2 /\ (255 * (i - 1)) % (n - 1) = 0
Breakpoint(i, n) == (255 * (i - 1)) \div (n - 1)

\* The list is not in ascending order.
NotAscending(gv) == \E i \in 1 .. Len(gv) - 1 : gv[i] > gv[i + 1]

\* C9 as stated: when the levels are supplied in a non-ascending order the
\* table reproduces them in the order supplied: its value at the i-th
\* evenly spaced input breakpoint is the i-th supplied level.
C9_ReproducesSuppliedOrder ==
    (lutPc = "returned" /\ NotAscending(grayValues)) =>
        \A i \in 1 .. Len(grayValues) :
            BreakpointIsInput(i, Len(grayValues)) =>
                lut[Breakpoint(i, Len(grayValues))] = grayValues[i]

\* C9 as amended: the levels are deduplicated and sorted first, so the table
\* value at the i-th evenly spaced breakpoint of the n distinct levels is the
\* i-th smallest distinct level, also when the levels are supplied in a
\* non-ascending order.
C9_ReproducesSortedLevels ==
    (lutPc = "returned" /\ NotAscending(grayValues)) =>
        LET S == LevelSet(grayValues)
            n == Cardinality(S)
        IN  \A v \in S :
                LET i == Cardinality({u \in S : u < v}) + 1
                IN  BreakpointIsInput(i, n) => lut[Breakpoint(i, n)] = v

\* Witness of C9: a non-ascending list of four distinct levels whose second
\* breakpoint does not hold the level supplied second.
C9_Witness ==
    /\ lutPc = "returned" /\ NotAscending(grayValues)
    /\ Len(grayValues) = 4 /\ Cardinality(LevelSet(grayValues)) = 4
    /\ lut[85] # grayValues[2]
    /\ lut[0] < lut[85] /\ lut[85] < lut[170] /\ lut[170] < lut[255]

-----------------------------------------------------------------------------
(* 3D Engrave tool: src/unnamed/part_003, readSettings / runProcessing     *)

\* A piece of text is a sequence of one-character strings.
DigitChars == <<"0", "1", "2", "3", "4", "5", "6", "7", "8", "9">>
IsDigit(c) == \E d \in 1 .. 10 : DigitChars[d] = c
DigitValue(c) == (CHOOSE d \in 1 .. 10 : DigitChars[d] = c) - 1

\* s.trim(): the text without leading and trailing blanks.
RECURSIVE trimLeft(_)
trimLeft(t) == IF t # <<>> /\ Head(t) = " " THEN trimLeft(Tail(t)) ELSE t
RECURSIVE trimRight(_)
trimRight(t) ==
    IF t # <<>> /\ t[Len(t)] = " " THEN trimRight(SubSeq(t, 1, Len(t) - 1)) ELSE t
trim(t) == trimRight(trimLeft(t))

\* The value of the longest prefix of decimal digits of t, continuing acc.
RECURSIVE digitsValue(_, _)
digitsValue(t, acc) ==
    IF t = <<>> \/ ~IsDigit(Head(t)) THEN acc
    ELSE digitsValue(Tail(t), acc * 10 + DigitValue(Head(t)))

\* parseInt(t, 10): an optional sign, then the leading digits; NaN when
\* there is no digit.  The result is [nan |-> ..., val |-> ...].
parseInt(t) ==
    LET u == trimLeft(t)
        signed == u # <<>> /\ Head(u) \in {"-", "+"}
        body == IF signed THEN Tail(u) ELSE u
        neg == signed /\ Head(u) = "-"
    IN  IF body = <<>> \/ ~IsDigit(Head(body)) THEN [nan |-> TRUE, val |-> 0]
        ELSE [nan |-> FALSE,
              val |-> IF neg THEN 0 - digitsValue(body, 0) ELSE digitsValue(body, 0)]

\* grayStr.split(',').map(s => parseInt(s.trim(), 10))
\*        .filter(n => !isNaN(n) && n >= 0 && n <= 255)
RECURSIVE parseGrayValues(_)
parseGrayValues(pieces) ==
    IF pieces = <<>> THEN <<>>
    ELSE LET n == parseInt(trim(Head(pieces)))
         IN  (IF ~n.nan /\ n.val >= 0 /\ n.val <= 255 THEN <<n.val>> ELSE <<>>)
                 \o parseGrayValues(Tail(pieces))

\* The number of distinct gray levels in 0..255 a text holds.
DistinctLevels(field) ==
    Cardinality({v \in 0 .. 255 :
        \E i \in 1 .. Len(field) :
            LET n == parseInt(trim(field[i])) IN ~n.nan /\ n.val = v})

\* readSettings, the gray levels: if (grayVals.length >= 2)
\*     state.settings.customGrayValues = grayVals;   else they stay as they are.
readGrayValues(field, current) ==
    LET grayVals == parseGrayValues(field)
    IN  IF Len(grayVals) >= 2 THEN grayVals ELSE current

\* readSettings, the DPI: dpi = parseInt(field, 10);
\*     if (dpi >= 72 && dpi <= 2400) state.settings.driverDpi = dpi;
\* a NaN fails both comparisons, so the DPI stays as it is.
MinDpi == 72
MaxDpi == 2400
readDpi(field, current) ==
    LET dpi == parseInt(field)
    IN  IF ~dpi.nan /\ dpi.val >= MinDpi /\ dpi.val <= MaxDpi THEN dpi.val ELSE current

\* DEFAULTS.driverDpi and the initial text of the DPI field.
DefaultDpi == 600
DefaultDpiField == <<"6", "0", "0">>

\* The texts a user types into the DPI field.
DpiTexts ==
    {<<>>, <<"5", "0">>, <<"3", "0", "0">>, <<"2", "4", "0", "1">>}

\* Most pieces a typed gray-level text has, most callbacks queued at once,
\* number of image files.
MaxPieces == 2
MaxQueued == 2
MaxFiles == 1

\* The pieces a user types between commas.
GrayPieces ==
    {<<>>, <<"5">>, <<" ", "2", "5", "5">>, <<"3", "0", "0">>}

GrayTexts == UNION {[1 .. n -> GrayPieces] : n \in 1 .. MaxPieces}

\* state.settings.customGrayValues.join(', '): the initial text of the field.
DefaultGrayField ==
    << <<"1", "0", "4">>, <<" ", "1", "8", "7">>, <<" ", "1", "8", "8">>,
       <<" ", "2", "1", "6">>, <<" ", "2", "5", "5">> >>

ImageFiles == 1 .. MaxFiles

E3dInit ==
    /\ grayField = DefaultGrayField
    /\ customGrayValues = DefaultGrayValues
    /\ stateFile = 0
    /\ loading = {}
    /\ originalImg = 0
    /\ resultData = <<>>
    /\ processing = FALSE
    /\ liveTimer = FALSE
    /\ runQueue = <<>>
    /\ statusEl = ""
    /\ processBtnDisabled = TRUE
    /\ lastRun = <<>>
    /\ dpiField = DefaultDpiField
    /\ driverDpi = DefaultDpi
    /\ resultDpi = 0
    /\ GemIdle
    /\ LutIdle
    /\ StageIdle
    /\ BdzIdle
    /\ DpifixIdle
    /\ DitherIdle

\* readSettings(); runProcessing(silent): the settings are read from the
\* fields, state.processing is set, the status line is set and the callback
\* is queued.  The queued entry remembers whether the text the request read
\* held two distinct gray levels, and the DPI the request read.
ReadAndRun(silent) ==
    /\ Len(runQueue) < MaxQueued
    /\ customGrayValues' = readGrayValues(grayField, customGrayValues)
    /\ driverDpi' = readDpi(dpiField, driverDpi)
    /\ processing' = TRUE
    /\ statusEl' = IF silent THEN "" ELSE "spinner"
    /\ runQueue' = Append(runQueue, [silent |-> silent,
                                     twoLevels |-> DistinctLevels(grayField) >= 2,
                                     dpiRead |-> parseInt(dpiField)])

\* handleFile(file) for a JPEG or PNG file: state.file is set and the file
\* starts loading.
HandleFile(f) ==
    /\ f \notin loading
    /\ stateFile' = f
    /\ loading' = loading \cup {f}
    /\ UNCHANGED <<grayField, customGrayValues, originalImg, resultData, processing,
                   liveTimer, runQueue, statusEl, processBtnDisabled, lastRun,
                   dpiField, driverDpi, resultDpi>>
    /\ UNCHANGED <<gemVars, lutVars, stageVars, bdzVars, dpifixVars, ditherVars>>

\* img.onload of handleFile: the image is stored, the old result is
\* cleared, the Process button is enabled and the image is processed.
ImgOnload(f) ==
    /\ f \in loading
    /\ loading' = loading \ {f}
    /\ originalImg' = f
    /\ resultData' = <<>>
    /\ processBtnDisabled' = FALSE
    /\ ReadAndRun(TRUE)
    /\ UNCHANGED <<grayField, stateFile, liveTimer, lastRun, dpiField, resultDpi>>
    /\ UNCHANGED <<gemVars, lutVars, stageVars, bdzVars, dpifixVars, ditherVars>>

\* The user edits the gray-values field; its change event calls
\* scheduleLiveUpdate, which arms the timer once an image is loaded.
EditGrayValues(text) ==
    /\ grayField' = text
    /\ liveTimer' = IF originalImg = 0 THEN liveTimer ELSE TRUE
    /\ UNCHANGED <<customGrayValues, stateFile, loading, originalImg, resultData,
                   processing, runQueue, statusEl, processBtnDisabled, lastRun,
                   dpiField, driverDpi, resultDpi>>
    /\ UNCHANGED <<gemVars, lutVars, stageVars, bdzVars, dpifixVars, ditherVars>>

\* The user edits the DPI field; its change event calls scheduleLiveUpdate.
EditDpi(text) ==
    /\ dpiField' = text
    /\ liveTimer' = IF originalImg = 0 THEN liveTimer ELSE TRUE
    /\ UNCHANGED <<grayField, customGrayValues, stateFile, loading, originalImg,
                   resultData, processing, runQueue, statusEl, processBtnDisabled,
                   lastRun, driverDpi, resultDpi>>
    /\ UNCHANGED <<gemVars, lutVars, stageVars, bdzVars, dpifixVars, ditherVars>>

\* The live-update timer fires: readSettings(); runProcessing(true).
LiveTimerFires ==
    /\ liveTimer
    /\ liveTimer' = FALSE
    /\ ReadAndRun(TRUE)
    /\ UNCHANGED <<grayField, stateFile, loading, originalImg, resultData,
                   processBtnDisabled, lastRun, dpiField, resultDpi>>
    /\ UNCHANGED <<gemVars, lutVars, stageVars, bdzVars, dpifixVars, ditherVars>>

\* Click on Process: ignored without an image or while processing.
ProcessClick ==
    /\ ~processBtnDisabled
    /\ originalImg # 0 /\ ~processing
    /\ ReadAndRun(FALSE)
    /\ processBtnDisabled' = TRUE
    /\ UNCHANGED <<grayField, stateFile, loading, originalImg, resultData,
                   liveTimer, lastRun, dpiField, resultDpi>>
    /\ UNCHANGED <<gemVars, lutVars, stageVars, bdzVars, dpifixVars, ditherVars>>

\* The queued callback of runProcessing: processImage runs on the current
\* image and settings (its last stage builds and applies the tone table),
\* the result is stored and shown, and state.processing is cleared.
RunCallback ==
    /\ runQueue # <<>>
    /\ resultData' = [levels |-> customGrayValues,
                      lut |-> buildMappingLut(customGrayValues)]
    /\ resultDpi' = driverDpi
    /\ lastRun' = [twoLevels |-> Head(runQueue).twoLevels,
                   dpiRead |-> Head(runQueue).dpiRead,
                   img |-> originalImg]
    /\ statusEl' = ""
    /\ processing' = FALSE
    /\ processBtnDisabled' = FALSE
    /\ runQueue' = Tail(runQueue)
    /\ UNCHANGED <<grayField, customGrayValues, stateFile, loading, originalImg,
                   liveTimer, dpiField, driverDpi>>
    /\ UNCHANGED <<gemVars, lutVars, stageVars, bdzVars, dpifixVars, ditherVars>>

E3dNext ==
    \/ \E f \in ImageFiles : HandleFile(f)
    \/ \E f \in ImageFiles : ImgOnload(f)
    \/ \E text \in GrayTexts : EditGrayValues(text)
    \/ LiveTimerFires
    \/ ProcessClick
    \/ RunCallback

SpecE3d == E3dInit /\ [][E3dNext]_vars

\* The tool with two files to select, the settings left as they are.
SelectedFiles == {1, 2}

FilesNext ==
    \/ \E f \in SelectedFiles : HandleFile(f)
    \/ \E f \in SelectedFiles : ImgOnload(f)
    \/ ProcessClick
    \/ RunCallback

SpecFiles == E3dInit /\ [][FilesNext]_vars

\* The tool with the gray levels left at their default and the DPI edited.
DpiNext ==
    \/ \E f \in ImageFiles : HandleFile(f)
    \/ \E f \in ImageFiles : ImgOnload(f)
    \/ \E text \in DpiTexts : EditDpi(text)
    \/ LiveTimerFires
    \/ ProcessClick
    \/ RunCallback

SpecDpi == E3dInit /\ [][DpiNext]_vars

-----------------------------------------------------------------------------
(* Properties of the settings reader                                       *)

\* C10: a gray-level text with fewer than two distinct values in 0..255 is
\* rejected: no pipeline stage (processImage, buildMappingLut) runs for a
\* request that read such a text.
C10_FewLevelsRejected ==
    lastRun # <<>> => lastRun.twoLevels

\* The DPI documented for the power map: 1..2400.
DocumentedDpi(dpi) == ~dpi.nan /\ dpi.val >= 1 /\ dpi.val <= 2400

\* C11: a DPI outside 1..2400 is rejected before any pipeline stage runs, and
\* every DPI inside 1..2400 is accepted and is the DPI returned with the
\* power map: processImage runs only for requests that read a DPI in
\* 1..2400, and the result then carries that DPI.
C11_DpiRangeEnforced ==
    lastRun # <<>> =>
        /\ DocumentedDpi(lastRun.dpiRead)
        /\ resultDpi = lastRun.dpiRead.val

-----------------------------------------------------------------------------
(* Scalar fields and the blur routines                                     *)
(*                                                                         *)
(* A scalar field (a Float32Array or Uint8Array of w * h values) is a      *)
(* function from the index y * w + x to the value.  The values of a float  *)
(* field are held in fixed point: those of the 3D Engrave pipeline, which  *)
(* lie in [0, 1], in millionths (Unit); a value stored into a field is     *)
(* rounded to the nearest fixed-point value.  Math.exp is tabulated to     *)
(* three decimals (KernelUnit) for the sigmas that are explored.           *)

\* One, in the fixed point of the float fields of the 3D Engrave pipeline.
Unit == 1000000

\* One, in the fixed point of the kernel weights.
KernelUnit == 1000

\* Math.round(n / d) for n >= 0, d > 0, without doubling n.
Nearest(n, d) == (n + d \div 2) \div d

\* Math.ceil(n / d) for n >= 0, d > 0.
CeilDiv(n, d) == (n + d - 1) \div d

\* Math.max(lo, Math.min(hi, v))
Clamp(v, lo, hi) == Max(lo, Min(hi, v))

Abs(x) == IF x < 0 THEN 0 - x ELSE x

RECURSIVE SeqSum(_)
SeqSum(s) == IF s = <<>> THEN 0 ELSE Head(s) + SeqSum(Tail(s))

\* Math.exp(-(x * x) / (2 * sigma * sigma)) in thousandths, for a sigma given
\* in tenths and an offset x in -3 .. 3.
expNeg(x, sigma10) ==
    LET row == CASE sigma10 = 1 -> <<1000, 0, 0, 0>>
                 [] sigma10 = 4 -> <<1000, 44, 0, 0>>
                 [] sigma10 = 7 -> <<1000, 360, 17, 0>>
                 [] sigma10 = 10 -> <<1000, 607, 135, 11>>
    IN  row[Abs(x) + 1]

\* for (i ...) k[i] /= sum;   the weights then sum to one: in thousandths,
\* the centre weight takes what the rounding of the others leaves.
normalise(k) ==
    LET centre == (Len(k) + 1) \div 2
        side == [i \in DOMAIN k |->
                    IF i = centre THEN 0 ELSE Nearest(k[i] * KernelUnit, SeqSum(k))]
    IN  [i \in DOMAIN k |-> IF i = centre THEN KernelUnit - SeqSum(side) ELSE side[i]]

\* bedazzle.js gaussKernel(sigma): r = Math.ceil(sigma * 2.5), the weights
\* exp(-i^2 / (2 sigma^2)) for i in -r .. r, normalised.
gaussKernel(sigma10) ==
    LET r == CeilDiv(sigma10 * 25, 100)
    IN  [kernel |-> normalise([i \in 1 .. 2 * r + 1 |-> expNeg(i - 1 - r, sigma10)]),
         radius |-> r]

\* One pass of gaussBlur: the weighted sum over k in -radius .. radius of the
\* samples at x + k (horizontal) or y + k (vertical), clamped to the field.
gaussPass(src, w, h, kr, horizontal) ==
    [i \in 0 .. w * h - 1 |->
        LET x == i % w
            y == i \div w
            terms == [j \in 1 .. 2 * kr.radius + 1 |->
                        LET k == j - 1 - kr.radius
                            sx == Min(w - 1, Max(0, x + k))
                            sy == Min(h - 1, Max(0, y + k))
                        IN  (IF horizontal THEN src[y * w + sx] ELSE src[sy * w + x])
                                * kr.kernel[j]]
        IN  Nearest(SeqSum(terms), KernelUnit)]

\* bedazzle.js gaussBlur(src, w, h, sigma):
\*   if (sigma < 0.5) return src.slice();   else horizontal, then vertical pass.
gaussBlur(src, w, h, sigma10) ==
    IF sigma10 < 5 THEN src
    ELSE LET kr == gaussKernel(sigma10)
             tmp == gaussPass(src, w, h, kr, TRUE)
         IN  gaussPass(tmp, w, h, kr, FALSE)

\* part_003 gaussianKernel(sigma): size = Math.ceil(sigma * 3) * 2 + 1, the
\* weights exp(-x^2 / (2 sigma^2)) for x = i - half, normalised.
gaussianKernel(sigma10) ==
    LET size == CeilDiv(sigma10 * 3, 10) * 2 + 1
        half == size \div 2
    IN  normalise([i \in 1 .. size |-> expNeg(i - 1 - half, sigma10)])

\* One pass of separableBlur.
blurPass(data, w, h, kernel, horizontal) ==
    LET half == Len(kernel) \div 2
    IN  [i \in 0 .. w * h - 1 |->
            LET x == i % w
                y == i \div w
                terms == [j \in 1 .. Len(kernel) |->
                            LET sx == Min(w - 1, Max(0, x + (j - 1) - half))
                                sy == Min(h - 1, Max(0, y + (j - 1) - half))
                            IN  (IF horizontal THEN data[y * w + sx]
                                               ELSE data[sy * w + x]) * kernel[j]]
            IN  Nearest(SeqSum(terms), KernelUnit)]

\* part_003 separableBlur(data, w, h, sigma): horizontal, then vertical pass;
\* there is no test on sigma.
separableBlur(data, w, h, sigma10) ==
    LET kernel == gaussianKernel(sigma10)
        temp == blurPass(data, w, h, kernel, TRUE)
    IN  blurPass(temp, w, h, kernel, FALSE)

\* part_003 unsharpMask(data, w, h, amount, sigma), amount in tenths:
\*   result[i] = clamp(data[i] * (1 + amount) - blurred[i] * amount, 0, 1)
unsharpMask(data, w, h, amount10, sigma10) ==
    LET blurred == separableBlur(data, w, h, sigma10)
    IN  [i \in 0 .. w * h - 1 |->
            LET v == data[i] * (10 + amount10) - blurred[i] * amount10
            IN  IF v <= 0 THEN 0 ELSE Clamp(Nearest(v, 10), 0, Unit)]

\* part_003 resizeBilinear(data, srcW, srcH, dstW, dstH): the destination
\* pixel (dx, dy) maps back to sx = dx * srcW / dstW, sy = dy * srcH / dstH
\* and blends the four source pixels around it; fx = a / dstW, fy = b / dstH.
resizeBilinear(data, srcW, srcH, dstW, dstH) ==
    [i \in 0 .. dstW * dstH - 1 |->
        LET dx == i % dstW
            dy == i \div dstW
            x0 == (dx * srcW) \div dstW
            y0 == (dy * srcH) \div dstH
            x1 == Min(x0 + 1, srcW - 1)
            y1 == Min(y0 + 1, srcH - 1)
            a == (dx * srcW) % dstW
            b == (dy * srcH) % dstH
        IN  Nearest(data[y0 * srcW + x0] * (dstW - a) * (dstH - b)
                    + data[y0 * srcW + x1] * a * (dstH - b)
                    + data[y1 * srcW + x0] * (dstW - a) * b
                    + data[y1 * srcW + x1] * a * b,
                    dstW * dstH)]

-----------------------------------------------------------------------------
(* Edge mask: src/lazar/assets/bedazzle.js, buildEdgeMask                  *)

\* let maxE = 0; for (...) if (edgeMag[i] > maxE) maxE = edgeMag[i];
\* if (maxE === 0) maxE = 1;
maxEdge(mag) ==
    LET m == IF DOMAIN mag = {} THEN 0
             ELSE CHOOSE v \in {mag[i] : i \in DOMAIN mag} :
                      \A i \in DOMAIN mag : mag[i] <= v
    IN  IF m = 0 THEN 1 ELSE m

\* binary[i] = (edgeMag[i] * scale) >= thresh ? 1 : 0;
\* with scale = 255 / maxE and thresh = 255 - sensitivity.
thresholdMask(mag, sensitivity) ==
    [i \in DOMAIN mag |->
        IF mag[i] * 255 >= (255 - sensitivity) * maxEdge(mag) THEN 1 ELSE 0]

\* Mutant: the disc that is stamped leaves out its centre.
inDiscNoCentre(dx, dy, dilateR) ==
    dx * dx + dy * dy <= dilateR * dilateR /\ (dx # 0 \/ dy # 0)

\* The offsets (dx, dy) in -dilateR .. dilateR that the stamp writes:
\*   if (dx * dx + dy * dy > r2) continue;
inDisc(dx, dy, dilateR) ==
    Abs(dx) <= dilateR /\ Abs(dy) <= dilateR /\ dx * dx + dy * dy <= dilateR * dilateR

\* The stamping loops: a pixel of the dilated mask is 1 iff the disc stamped
\* at some pixel that is on in the binary mask covers it.
dilate(binary, w, h, dilateR) ==
    [i \in 0 .. w * h - 1 |->
        IF \E j \in 0 .. w * h - 1 :
               binary[j] = 1 /\ inDisc((i % w) - (j % w), (i \div w) - (j \div w), dilateR)
        THEN 1 ELSE 0]

\* buildEdgeMask(edgeMag, w, h, sensitivity, dilateR)
buildEdgeMask(mag, w, h, sensitivity, dilateR) ==
    LET binary == thresholdMask(mag, sensitivity)
    IN  IF dilateR <= 0 THEN binary ELSE dilate(binary, w, h, dilateR)

-----------------------------------------------------------------------------
(* CLAHE: src/unnamed/part_003, applyClahe                                 *)
(*                                                                         *)
(* The histogram bins are held in units of 1/HistUnit of a pixel, which    *)
(* makes the clip limit clipLimit * numPixels / 256 and the increment      *)
(* excess / 256 integral for an integer clip limit.                        *)

HistUnit == 65536

\* const tilesX = Math.max(1, Math.floor(width / tileSize));
tileCount(size, tileSize) == Max(1, size \div tileSize)

\* Math.round(t * tileW) with tileW = size / tiles: the start of tile t.
tileStart(t, size, tiles) == Nearest(t * size, tiles)

\* The pixel indices of the tile (tx, ty).
tilePixels(width, height, tilesX, tilesY, tx, ty) ==
    {r * width + c :
        r \in tileStart(ty, height, tilesY) .. tileStart(ty + 1, height, tilesY) - 1,
        c \in tileStart(tx, width, tilesX) .. tileStart(tx + 1, width, tilesX) - 1}

\* hist[v] after the histogram loop, in HistUnit.
tileHist(gray, pix, v) == Cardinality({p \in pix : gray[p] = v}) * HistUnit

\* const limit = Math.max(1, clipLimit * numPixels / 256);
clipLimitOf(clipLimit, numPixels) == Max(HistUnit, clipLimit * numPixels * 256)

\* The sum of f[v] over the values v of S.
RECURSIVE SetSum(_, _)
SetSum(f, S) ==
    IF S = {} THEN 0
    ELSE LET v == CHOOSE u \in S : TRUE IN f[v] + SetSum(f, S \ {v})

\* The remapping table of one tile.  With H the histogram, clipped at limit
\* when clipLimit > 0 and raised by increment = excess / 256 in every bin
\* (only the bins of the gray levels present in the tile are not empty, and
\* excess is what the clipping took off them),
\* cdf[i] = H[0] + ... + H[i] and
\*   lut[i] = Math.round((cdf[i] - cdfMin) / (cdfMax - cdfMin) * 255),
\* which a Uint8Array stores as 0 when it is NaN (cdfMax = cdfMin).
tileLut(gray, pix, clipLimit) ==
    LET present == {gray[p] : p \in pix}
        limit == clipLimitOf(clipLimit, Cardinality(pix))
        bin(v) == IF clipLimit > 0 THEN Min(tileHist(gray, pix, v), limit)
                  ELSE tileHist(gray, pix, v)
        bins == [v \in present |-> bin(v)]
        excess == Cardinality(pix) * HistUnit - SetSum(bins, present)
        increment == excess \div 256
        cdf(i) == (i + 1) * increment + SetSum(bins, {v \in present : v <= i})
        cdfMin == cdf(0)
        cdfMax == cdf(255)
    IN  [i \in 0 .. 255 |->
            IF cdfMax = cdfMin THEN 0
            ELSE Nearest((cdf(i) - cdfMin) * 255, cdfMax - cdfMin)]

\* Mutant: the blend takes the second table at full weight.
claheBlendUnweighted(v00, v10, v01, v11, axN, d, ayN, e) ==
    Nearest((v00 * (d - axN) + v10 * d) * (e - ayN)
            + (v01 * (d - axN) + v11 * d) * ayN, d * e)

\* top = v00 * (1 - ax) + v10 * ax;  bot = v01 * (1 - ax) + v11 * ax;
\* result = Math.round(top * (1 - ay) + bot * ay), with ax = axN / d, ay = ayN / e.
claheBlend(v00, v10, v01, v11, axN, d, ayN, e) ==
    Nearest((v00 * (d - axN) + v10 * axN) * (e - ayN)
            + (v01 * (d - axN) + v11 * axN) * ayN, d * e)

\* applyClahe(gray, width, height, clipLimit, tileSize).  For the pixel
\* (x, y), ftx = (x - tileW / 2) / tileW = (2 * tilesX * x - width) / (2 * width),
\* and likewise fty.
applyClahe(gray, width, height, clipLimit, tileSize) ==
    LET tilesX == tileCount(width, tileSize)
        tilesY == tileCount(height, tileSize)
        tileLuts == [ty \in 0 .. tilesY - 1 |-> [tx \in 0 .. tilesX - 1 |->
                        tileLut(gray,
                                tilePixels(width, height, tilesX, tilesY, tx, ty),
                                clipLimit)]]
    IN  [i \in 0 .. width * height - 1 |->
            LET x == i % width
                y == i \div width
                px == gray[i]
                d == 2 * width
                e == 2 * height
                ftxN == 2 * tilesX * x - width
                ftyN == 2 * tilesY * y - height
                tx0 == Clamp(ftxN \div d, 0, tilesX - 1)
                ty0 == Clamp(ftyN \div e, 0, tilesY - 1)
                tx1 == Min(tilesX - 1, tx0 + 1)
                ty1 == Min(tilesY - 1, ty0 + 1)
                axN == Clamp(ftxN - tx0 * d, 0, d)
                ayN == Clamp(ftyN - ty0 * e, 0, e)
            IN  claheBlend(tileLuts[ty0][tx0][px], tileLuts[ty0][tx1][px],
                           tileLuts[ty1][tx0][px], tileLuts[ty1][tx1][px],
                           axN, d, ayN, e)]

-----------------------------------------------------------------------------
(* Power-map pipeline: src/unnamed/part_003, processImage                  *)
(*                                                                         *)
(* The settings hold the sharpen amount in tenths and the target width     *)
(* and height in eighths of an inch, as [null |-> ..., val |-> ...].       *)

\* srgbToLinear(v / 255) in millionths for an 8-bit channel value v:
\*   v <= 0.04045 ? v / 12.92 : Math.pow((v + 0.055) / 1.055, 2.4),
\* the power tabulated for the channel values that are explored.
srgbToLinear(v8) ==
    IF v8 * 100000 <= 4045 * 255 THEN Nearest(v8 * 100 * Unit, 255 * 1292)
    ELSE CASE v8 = 50 -> 31896
           [] v8 = 64 -> 51269
           [] v8 = 100 -> 127438
           [] v8 = 128 -> 215861
           [] v8 = 188 -> 502886
           [] v8 = 200 -> 577580
           [] v8 = 255 -> Unit

\* coeff / 10000 * v for a value v in millionths, without overflow.
scaleBy(coeff, v) == coeff * (v \div 10000) + Nearest(coeff * (v % 10000), 10000)

\* Y[i] = 0.2126 * rLin + 0.7152 * gLin + 0.0722 * bLin;
luminance(p) ==
    scaleBy(2126, srgbToLinear(p[RED])) + scaleBy(7152, srgbToLinear(p[GREEN]))
        + scaleBy(722, srgbToLinear(p[BLUE]))

\* Math.round(Math.max(0, Math.min(255, v * 255))) for v in millionths.
quantize8(v) == Nearest(Clamp(v * 255, 0, 255 * Unit), Unit)

\* Stage 3: the 8-bit round trip through applyClahe.
claheStage(Y, w, h, settings) ==
    IF settings.applyClahe
    THEN LET Y8 == [i \in 0 .. w * h - 1 |-> quantize8(Y[i])]
             clahed == applyClahe(Y8, w, h, settings.claheClip, settings.claheTile)
         IN  [i \in 0 .. w * h - 1 |-> Nearest(clahed[i] * Unit, 255)]
    ELSE Y

\* 1e-6, the lower clamp of stage 4.
Epsilon == 1

\* Mutant: the stage inverts once, 1 - clamp(v, eps, 1) when asked to.
invertValueOnce(v, invertOutput) ==
    IF invertOutput THEN Unit - Max(Epsilon, Min(Unit, v))
    ELSE Max(Epsilon, Min(Unit, v))

\* Stage 4, for one value:
\*   let b = invertOutput ? 1.0 - Yprocessed[i] : Yprocessed[i];
\*   b = Math.max(1e-6, Math.min(1.0, b));
\*   const adj = Math.pow(b, 1.0);
\*   base[i] = invertOutput ? 1.0 - adj : adj;
\*   base[i] = Math.max(0, Math.min(1, base[i]));
invertValue(v, invertOutput) ==
    LET b0 == IF invertOutput THEN Unit - v ELSE v
        b == Max(Epsilon, Min(Unit, b0))
        adj == b
    IN  Clamp(IF invertOutput THEN Unit - adj ELSE adj, 0, Unit)

\* Mutant: a sharpener that is switched off clears the buffer.
sharpenStageZeroed(base, w, h, settings) ==
    IF settings.sharpenAmount > 0
    THEN unsharpMask(base, w, h, settings.sharpenAmount, 7)
    ELSE [i \in 0 .. w * h - 1 |-> 0]

\* Stage 5: if (sharpenAmount > 0) sharpened = unsharpMask(base, w, h, sharpenAmount, 0.7);
sharpenStage(base, w, h, settings) ==
    IF settings.sharpenAmount > 0
    THEN unsharpMask(base, w, h, settings.sharpenAmount, 7)
    ELSE base

\* inchesToPx(inches, dpi) = Math.round(inches * dpi), inches in eighths.
inchesToPx(inches8, dpi) == Nearest(inches8 * dpi, 8)

\* const hasW = targetWidthIn !== null && targetWidthIn !== '' && targetWidthIn > 0;
hasTarget(t) == ~t.null /\ t.val > 0

\* Mutant: with only a width given the height is not scaled.
targetSizeNoAspect(w, h, settings) ==
    LET hasW == hasTarget(settings.targetWidthIn)
        hasH == hasTarget(settings.targetHeightIn)
    IN  IF hasW /\ ~hasH
        THEN <<inchesToPx(settings.targetWidthIn.val, settings.driverDpi), h>>
        ELSE IF hasH /\ ~hasW
        THEN <<w, inchesToPx(settings.targetHeightIn.val, settings.driverDpi)>>
        ELSE IF hasW /\ hasH
        THEN <<inchesToPx(settings.targetWidthIn.val, settings.driverDpi),
               inchesToPx(settings.targetHeightIn.val, settings.driverDpi)>>
        ELSE <<w, h>>

\* Stage 6, the size: <<finalW, finalH>>.
targetSize(w, h, settings) ==
    LET hasW == hasTarget(settings.targetWidthIn)
        hasH == hasTarget(settings.targetHeightIn)
    IN  IF hasW /\ ~hasH
        THEN LET finalW == inchesToPx(settings.targetWidthIn.val, settings.driverDpi)
             IN  <<finalW, Nearest(h * finalW, w)>>
        ELSE IF hasH /\ ~hasW
        THEN LET finalH == inchesToPx(settings.targetHeightIn.val, settings.driverDpi)
             IN  <<Nearest(w * finalH, h), finalH>>
        ELSE IF hasW /\ hasH
        THEN <<inchesToPx(settings.targetWidthIn.val, settings.driverDpi),
               inchesToPx(settings.targetHeightIn.val, settings.driverDpi)>>
        ELSE <<w, h>>

\* Stage 6, the data: resampled when a target is given.
resizeStage(sharpened, w, h, settings) ==
    IF hasTarget(settings.targetWidthIn) \/ hasTarget(settings.targetHeightIn)
    THEN resizeBilinear(sharpened, w, h, targetSize(w, h, settings)[1],
                        targetSize(w, h, settings)[2])
    ELSE sharpened

-----------------------------------------------------------------------------
(* The stage calls that are explored                                       *)

\* Largest side of the float fields and images, largest dilation radius,
\* largest tile size (and side of the 8-bit images given to applyClahe).
MaxSide == 2
MaxDilate == 2
MaxTile == 4

\* Height of the tall, one pixel wide image given to processImage.
MaxTall == 20

Half == Unit \div 2
GRAY == <<128, 128, 128, 255>>

FieldSizes == (1 .. MaxSide) \X (1 .. MaxSide)

\* Float fields with values in [0, 1].
FloatFields(w, h) ==
    {pixelBuffer(w, h, "uniform", v, v) : v \in {0, Half, Unit}}
    \cup {pixelBuffer(w, h, k, pq[1], pq[2]) :
            k \in {"split", "checker"}, pq \in {<<0, Unit>>, <<Unit, Half>>}}

\* Edge magnitude fields.
MaskSizes == (1 .. MaxSide + 1) \X (1 .. MaxSide + 1)
MagFields(w, h) ==
    {pixelBuffer(w, h, "uniform", v, v) : v \in {0, 3}}
    \cup {pixelBuffer(w, h, k, pq[1], pq[2]) :
            k \in {"split", "checker"}, pq \in {<<0, 3>>, <<3, 1>>}}

\* 8-bit gray images.
ClaheSizes == (1 .. MaxTile) \X (1 .. MaxTile)
GrayImages(w, h) ==
    {pixelBuffer(w, h, "uniform", v, v) : v \in {0, 128, 255}}
    \cup {pixelBuffer(w, h, "split", 0, 255), pixelBuffer(w, h, "checker", 128, 255),
          pixelBuffer(w, h, "checker", 0, 128)}

Sigmas == {1, 4, 7, 10}
Amounts == {0, 30}
DstSides == 1 .. MaxSide + 1
Sensitivities == {0, 128, 255}
ClipLimits == {0, 4}
ClaheTiles == (1 .. MaxTile) \cup {30}

\* Images given to processImage.
Images(w, h) ==
    {[pixels |-> px, width |-> w, height |-> h] :
        px \in {pixelBuffer(w, h, "uniform", c, c) : c \in {BLACK, WHITE, GRAY, TAN}}
               \cup {pixelBuffer(w, h, "split", BLACK, WHITE),
                     pixelBuffer(w, h, "checker", GRAY, TAN)}}
PlainImages(w, h) ==
    {[pixels |-> px, width |-> w, height |-> h] :
        px \in {pixelBuffer(w, h, "uniform", GRAY, GRAY),
                pixelBuffer(w, h, "split", BLACK, WHITE)}}

TallImages ==
    {[pixels |-> px, width |-> 1, height |-> MaxTall] :
        px \in {pixelBuffer(1, MaxTall, "uniform", GRAY, GRAY),
                pixelBuffer(1, MaxTall, "split", BLACK, WHITE)}}

\* A blank target, and targets in eighths of an inch (0 is not a target).
NullIn == [null |-> TRUE, val |-> 0]
Targets == {NullIn} \cup {[null |-> FALSE, val |-> v] : v \in {0, 1, 2}}

\* Settings with no target size, all stage switches varied.
StageSettings ==
    {[customGrayValues |-> gv, driverDpi |-> DefaultDpi, invertOutput |-> inv,
      applyClahe |-> cl[1], claheClip |-> cl[2], claheTile |-> cl[3],
      sharpenAmount |-> sh, targetHeightIn |-> NullIn, targetWidthIn |-> NullIn] :
        gv \in {<<0, 255>>, DefaultGrayValues}, inv \in BOOLEAN,
        cl \in {<<FALSE, 4, 30>>, <<TRUE, 4, 30>>, <<TRUE, 0, 1>>}, sh \in Amounts}

\* Settings with CLAHE and sharpening off, the target size and DPI varied.
SizeSettings ==
    {[customGrayValues |-> <<0, 255>>, driverDpi |-> dpi, invertOutput |-> TRUE,
      applyClahe |-> FALSE, claheClip |-> 4, claheTile |-> 30,
      sharpenAmount |-> 0, targetHeightIn |-> th, targetWidthIn |-> tw] :
        dpi \in {72, 96}, th \in Targets, tw \in Targets}

\* The size settings used with the tall image: those with a target height.
TallSettings == {st \in SizeSettings : ~st.targetHeightIn.null /\ st.targetHeightIn.val > 0}

\* The calls: the function, its arguments, and the contents of its input
\* array, which is the array with reference 1.
StageCalls ==
    UNION {
        {[fn |-> "gaussBlur", w |-> wh[1], h |-> wh[2], sigma |-> s, input |-> f] :
            f \in FloatFields(wh[1], wh[2]), s \in Sigmas}
        \cup {[fn |-> "separableBlur", w |-> wh[1], h |-> wh[2], sigma |-> s, input |-> f] :
            f \in FloatFields(wh[1], wh[2]), s \in Sigmas}
        \cup {[fn |-> "unsharpMask", w |-> wh[1], h |-> wh[2], amount |-> a,
               sigma |-> s, input |-> f] :
            f \in FloatFields(wh[1], wh[2]), a \in Amounts, s \in {4, 7}}
        \cup {[fn |-> "resizeBilinear", w |-> wh[1], h |-> wh[2], dstW |-> dw,
               dstH |-> dh, input |-> f] :
            f \in FloatFields(wh[1], wh[2]), dw \in DstSides, dh \in DstSides}
        \cup {[fn |-> "processImage", img |-> im, settings |-> st, input |-> im.pixels] :
            im \in Images(wh[1], wh[2]), st \in StageSettings}
        \cup {[fn |-> "processImage", img |-> im, settings |-> st, input |-> im.pixels] :
            im \in PlainImages(wh[1], wh[2]), st \in SizeSettings}
        : wh \in FieldSizes}
    \cup {[fn |-> "processImage", img |-> im, settings |-> st, input |-> im.pixels] :
            im \in TallImages, st \in TallSettings}
    \cup UNION {
        {[fn |-> "buildEdgeMask", w |-> wh[1], h |-> wh[2], sensitivity |-> sn,
          dilateR |-> r, input |-> f] :
            f \in MagFields(wh[1], wh[2]), sn \in Sensitivities, r \in 0 .. MaxDilate}
        : wh \in MaskSizes}
    \cup UNION {
        {[fn |-> "applyClahe", w |-> wh[1], h |-> wh[2], clipLimit |-> cl,
          tileSize |-> t, input |-> f] :
            f \in GrayImages(wh[1], wh[2]), cl \in ClipLimits, t \in ClaheTiles}
        : wh \in ClaheSizes}

\* The reference of the input array of a call.
InputRef == 1

StageInit ==
    /\ \E c \in StageCalls : stageCall = c /\ stageHeap = <<c.input>>
    /\ stageRet = <<>>
    /\ stageTrace = <<>>
    /\ stagePc = "call"
    /\ GemIdle
    /\ LutIdle
    /\ E3dIdle
    /\ BdzIdle
    /\ DpifixIdle
    /\ DitherIdle

\* Mutant: the result is written over the input array, which is returned.
reuseInput(heap, src, data) ==
    [heap |-> [heap EXCEPT ![src] = data], ref |-> src]

\* const result = new Float32Array(...) / new Uint8Array(...) / src.slice();
\* ... return result;   the result is a new array, the others are untouched.
freshBuffer(heap, src, data) ==
    [heap |-> Append(heap, data), ref |-> Len(heap) + 1]

\* The call that is pending is a call of fn.
Calling(fn) == stagePc = "call" /\ stageCall.fn = fn

\* The call returns an array holding data.
StageReturns(data) ==
    /\ LET out == freshBuffer(stageHeap, InputRef, data)
       IN  /\ stageHeap' = out.heap
           /\ stageRet' = [ref |-> out.ref]
    /\ stagePc' = "returned"
    /\ UNCHANGED <<stageCall, stageTrace, gemVars, lutVars, e3dVars, bdzVars, dpifixVars, ditherVars>>

CallGaussBlur ==
    /\ Calling("gaussBlur")
    /\ StageReturns(
        gaussBlur(stageHeap[InputRef], stageCall.w, stageCall.h, stageCall.sigma))

CallSeparableBlur ==
    /\ Calling("separableBlur")
    /\ StageReturns(
        separableBlur(stageHeap[InputRef], stageCall.w, stageCall.h, stageCall.sigma))

CallUnsharpMask ==
    /\ Calling("unsharpMask")
    /\ StageReturns(
        unsharpMask(stageHeap[InputRef], stageCall.w, stageCall.h, stageCall.amount,
                    stageCall.sigma))

CallResizeBilinear ==
    /\ Calling("resizeBilinear")
    /\ StageReturns(
        resizeBilinear(stageHeap[InputRef], stageCall.w, stageCall.h, stageCall.dstW,
                       stageCall.dstH))

CallBuildEdgeMask ==
    /\ Calling("buildEdgeMask")
    /\ StageReturns(
        buildEdgeMask(stageHeap[InputRef], stageCall.w, stageCall.h,
                      stageCall.sensitivity, stageCall.dilateR))

CallApplyClahe ==
    /\ Calling("applyClahe")
    /\ StageReturns(
        applyClahe(stageHeap[InputRef], stageCall.w, stageCall.h, stageCall.clipLimit,
                   stageCall.tileSize))

\* processImage(img, settings): the stages in their order, each working on
\* the buffer the stage before it produced;
\*   return { data: mapped, width: finalW, height: finalH, dpi: driverDpi };
CallProcessImage ==
    /\ Calling("processImage")
    /\ LET settings == stageCall.settings
           w == stageCall.img.width
           h == stageCall.img.height
           finalW == targetSize(w, h, settings)[1]
           finalH == targetSize(w, h, settings)[2]
       IN  \E Y \in {[i \in 0 .. w * h - 1 |-> luminance(stageHeap[InputRef][i])]} :
           \E Yprocessed \in {claheStage(Y, w, h, settings)} :
           \E base \in {[i \in 0 .. w * h - 1 |->
                            invertValue(Yprocessed[i], settings.invertOutput)]} :
           \E sharpened \in {sharpenStage(base, w, h, settings)} :
           \E finalData \in {resizeStage(sharpened, w, h, settings)} :
           \E cont8 \in {[i \in 0 .. finalW * finalH - 1 |-> quantize8(finalData[i])]} :
           \E tone \in {buildMappingLut(settings.customGrayValues)} :
               LET mapped == [i \in 0 .. finalW * finalH - 1 |-> tone[cont8[i]]]
                   out == freshBuffer(stageHeap, InputRef, mapped)
               IN  /\ stageHeap' = out.heap
                   /\ stageRet' = [ref |-> out.ref, width |-> finalW, height |-> finalH,
                                   dpi |-> settings.driverDpi]
                   /\ stageTrace' = [Y |-> Y, Yprocessed |-> Yprocessed, base |-> base,
                                     sharpened |-> sharpened, cont8 |-> cont8]
    /\ stagePc' = "returned"
    /\ UNCHANGED <<stageCall, gemVars, lutVars, e3dVars, bdzVars, dpifixVars, ditherVars>>

StageNext ==
    \/ CallGaussBlur
    \/ CallSeparableBlur
    \/ CallUnsharpMask
    \/ CallResizeBilinear
    \/ CallBuildEdgeMask
    \/ CallApplyClahe
    \/ CallProcessImage

SpecStages == StageInit /\ [][StageNext]_vars

-----------------------------------------------------------------------------
(* The Bedazzle tool: src/lazar/assets/bedazzle.js, render() and the       *)
(* controls that feed it.  Lengths are in ticks, as in the sampler.        *)

\* parseFloat of a number field: NaN for a field that holds no number, else
\* the number.
NaN == [nan |-> TRUE, val |-> 0]
Num(v) == [nan |-> FALSE, val |-> v]

\* <input type="number" id="bdzWidth" value="100" ...>, likewise bdzHeight;
\* the unit select stays at mm (UNIT_TO_MM.mm = 1).
DefaultSizeMM == 100

\* GEM_SIZES[gemSelect.value].diameter with the option selected, SS16.
getGemDiameter == Mm(4)

\* The controls that are left at the values of the markup.
thresholdInput == 160
edgeWidthRows == 2
gapInput == 0
gridType == "hex"

\* An extended number: a number, NaN or +Infinity.
Finite(v) == [kind |-> "num", val |-> v]
NotANumber == [kind |-> "nan", val |-> 0]
Infinity == [kind |-> "inf", val |-> 0]

\* sobelEdges(imageData, w, h): `out` is allocated zeroed and the loops
\* write the interior pixels only (y in 1 .. h-2, x in 1 .. w-2).  It is
\* modelled for images without an interior pixel, which are the images
\* loaded below.
sobelEdges(imageData, w, h) == [i \in 0 .. w * h - 1 |-> 0]

\* const gemPxR = Math.max(1, Math.round((gemD / 2) *
\*     Math.min(pixelInfo.w / widthMM, pixelInfo.h / heightMM)));
\* A NaN size makes it NaN; a negative size makes the minimum negative and
\* the result 1; a size of 0 makes its scale +Infinity.
renderGemPxR(info, wIn, hIn, gemD) ==
    IF wIn.nan \/ hIn.nan THEN NotANumber
    ELSE IF wIn.val < 0 \/ hIn.val < 0 THEN Finite(1)
    ELSE IF wIn.val = 0 /\ hIn.val = 0 THEN Infinity
    ELSE IF wIn.val = 0 THEN Finite(Max(1, RoundDiv((gemD \div 2) * info.h, hIn.val)))
    ELSE IF hIn.val = 0 THEN Finite(Max(1, RoundDiv((gemD \div 2) * info.w, wIn.val)))
    ELSE Finite(gemPxR([gemDiameter |-> gemD, imgW |-> info.w, imgH |-> info.h,
                        widthMM |-> wIn.val, heightMM |-> hIn.val]))

\* const dilateR = Math.round(gemPxR * edgeWidthRows);
renderDilateR(pxR) ==
    IF pxR.kind = "num" THEN Finite(pxR.val * edgeWidthRows) ELSE pxR

\* buildEdgeMask stamps a disc for each pixel that is on after the
\* threshold: with dilateR = Infinity one stamp never ends.
edgeMaskHangs(mag, sensitivity, dilateR) ==
    dilateR.kind = "inf" /\ \E i \in DOMAIN mag : thresholdMask(mag, sensitivity)[i] = 1

\* var edgeMask = buildEdgeMask(edgeMag, pixelInfo.w, pixelInfo.h, ...);
\* with dilateR = NaN `dilateR <= 0` is false and the stamp loops do not run;
\* with dilateR = Infinity they run for the pixels that are on only.
renderEdgeMask(mag, w, h, sensitivity, dilateR) ==
    IF dilateR.kind = "num" THEN buildEdgeMask(mag, w, h, sensitivity, dilateR.val)
    ELSE [i \in 0 .. w * h - 1 |-> 0]

\* lastPositions = computeGemPositions({...}): with a NaN width or height
\* cols or rows is NaN and `row < rows` or `col < maxCols` is false at once.
renderPositions(info, wIn, hIn, gemD, m, mask) ==
    IF wIn.nan \/ hIn.nan THEN <<>>
    ELSE computeGemPositions(
            [imageData |-> info.data, imgW |-> info.w, imgH |-> info.h,
             widthMM |-> wIn.val, heightMM |-> hIn.val, gemDiameter |-> gemD,
             gap |-> gapInput, gridType |-> gridType, mode |-> m,
             threshold |-> thresholdInput, edgeMask |-> mask])

\* The images that are loaded, none with an interior pixel.
RenderSizes == {<<1, 1>>, <<2, 1>>, <<2, 2>>}
RenderImages ==
    UNION {{[data |-> pixelBuffer(wh[1], wh[2], "uniform", BLACK, BLACK),
             w |-> wh[1], h |-> wh[2]],
            [data |-> pixelBuffer(wh[1], wh[2], "split", BLACK, WHITE),
             w |-> wh[1], h |-> wh[2]]} : wh \in RenderSizes}

\* What the user types into the width and height fields.
SizeEdits == {NaN, Num(0), Num(Mm(0 - 5)), Num(Mm(10))}
Modes == {"edge", "threshold", "fill"}

RenderInit ==
    /\ pixelInfo = <<>>
    /\ widthInput = Num(Mm(DefaultSizeMM))
    /\ heightInput = Num(Mm(DefaultSizeMM))
    /\ mode = "edge"
    /\ edgeMag = <<>>
    /\ renderTimer = FALSE
    /\ lastPositions = <<>>
    /\ lastRender = <<>>
    /\ lastDownload = <<>>
    /\ GemIdle
    /\ LutIdle
    /\ E3dIdle
    /\ StageIdle
    /\ DpifixIdle
    /\ DitherIdle

\* Mutant: a newly loaded image leaves the cached edge magnitudes in place.
LoadImageKeepCache(info) ==
    /\ pixelInfo' = info
    /\ LET curW == IF widthInput.nan \/ widthInput.val = 0 THEN DefaultSizeMM
                   ELSE widthInput.val \div TicksPerMM
       IN  heightInput' = Num(Mm(RoundDiv(curW * info.h, info.w)))
    /\ renderTimer' = TRUE
    /\ UNCHANGED <<edgeMag, widthInput, mode, lastPositions, lastRender,
                   lastDownload>>
    /\ UNCHANGED <<gemVars, lutVars, e3dVars, stageVars, dpifixVars, ditherVars>>

\* img.onload of loadImage: pixelInfo = imageToPixels(img, 2048);
\* edgeMag = null; const curW = parseFloat(widthInput.value) || 100;
\* heightInput.value = Math.round(curW / aspect); scheduleRender();
LoadImage(info) ==
    /\ pixelInfo' = info
    /\ edgeMag' = <<>>
    /\ LET curW == IF widthInput.nan \/ widthInput.val = 0 THEN DefaultSizeMM
                   ELSE widthInput.val \div TicksPerMM
       IN  heightInput' = Num(Mm(RoundDiv(curW * info.h, info.w)))
    /\ renderTimer' = TRUE
    /\ UNCHANGED <<widthInput, mode, lastPositions, lastRender,
                   lastDownload>>
    /\ UNCHANGED <<gemVars, lutVars, e3dVars, stageVars, dpifixVars, ditherVars>>

\* widthInput.addEventListener('input', scheduleRender);
SetWidth(v) ==
    /\ widthInput' = v
    /\ renderTimer' = TRUE
    /\ UNCHANGED <<pixelInfo, heightInput, mode, edgeMag, lastPositions, lastRender,
                   lastDownload>>
    /\ UNCHANGED <<gemVars, lutVars, e3dVars, stageVars, dpifixVars, ditherVars>>

\* heightInput.addEventListener('input', scheduleRender);
SetHeight(v) ==
    /\ heightInput' = v
    /\ renderTimer' = TRUE
    /\ UNCHANGED <<pixelInfo, widthInput, mode, edgeMag, lastPositions, lastRender,
                   lastDownload>>
    /\ UNCHANGED <<gemVars, lutVars, e3dVars, stageVars, dpifixVars, ditherVars>>

\* The click listener of the mode chips: mode = chip.dataset.mode; scheduleRender();
SetMode(m) ==
    /\ mode' = m
    /\ renderTimer' = TRUE
    /\ UNCHANGED <<pixelInfo, widthInput, heightInput, edgeMag, lastPositions, lastRender,
                   lastDownload>>
    /\ UNCHANGED <<gemVars, lutVars, e3dVars, stageVars, dpifixVars, ditherVars>>

\* render(), run by the debounce timer: `if (!pixelInfo) return;`, then the
\* sizes are read and handed to the sampler as they are.
RenderTimerFires ==
    /\ renderTimer
    /\ renderTimer' = FALSE
    /\ IF pixelInfo = <<>>
       THEN UNCHANGED <<edgeMag, lastPositions, lastRender>>
       ELSE LET gemD == getGemDiameter
                mag == IF mode = "edge" /\ edgeMag = <<>>
                       THEN sobelEdges(pixelInfo.data, pixelInfo.w, pixelInfo.h)
                       ELSE edgeMag
                dilateR == renderDilateR(renderGemPxR(pixelInfo, widthInput,
                                                      heightInput, gemD))
                mask == IF mode = "edge"
                        THEN renderEdgeMask(mag, pixelInfo.w, pixelInfo.h,
                                            thresholdInput, dilateR)
                        ELSE noMask
            IN  /\ ~(mode = "edge" /\ edgeMaskHangs(mag, thresholdInput, dilateR))
                /\ edgeMag' = mag
                /\ lastPositions' = renderPositions(pixelInfo, widthInput, heightInput,
                                                    gemD, mode, mask)
                /\ lastRender' = [widthMM |-> widthInput, heightMM |-> heightInput,
                                  gemDiameter |-> gemD, mode |-> mode]
    /\ UNCHANGED <<pixelInfo, widthInput, heightInput, mode, lastDownload>>
    /\ UNCHANGED <<gemVars, lutVars, e3dVars, stageVars, dpifixVars, ditherVars>>

\* The click listener of the Download button: `if (!pixelInfo) return;`, the
\* sizes are read from the fields and the SVG is generated from
\* lastPositions as the last render left it.
DownloadClick ==
    /\ lastDownload' =
          IF pixelInfo = <<>> THEN lastDownload
          ELSE [positions |-> lastPositions, widthMM |-> widthInput,
                heightMM |-> heightInput, gemDiameter |-> getGemDiameter,
                mode |-> mode, pixelInfo |-> pixelInfo]
    /\ UNCHANGED <<pixelInfo, widthInput, heightInput, mode, edgeMag, renderTimer,
                   lastPositions, lastRender>>
    /\ UNCHANGED <<gemVars, lutVars, e3dVars, stageVars, dpifixVars, ditherVars>>

RenderNext ==
    \/ \E info \in RenderImages : LoadImage(info)
    \/ \E v \in SizeEdits : SetWidth(v)
    \/ \E v \in SizeEdits : SetHeight(v)
    \/ \E m \in Modes : SetMode(m)
    \/ RenderTimerFires

SpecRender == RenderInit /\ [][RenderNext]_vars

\* The tool with the Download button, a few images, sizes and modes.
DownloadImages == {info \in RenderImages : info.w = 2 /\ info.h = 2}
DownloadSizes == {Num(Mm(10))}
DownloadModes == {"fill"}

DownloadNext ==
    \/ \E info \in DownloadImages : LoadImage(info)
    \/ \E v \in DownloadSizes : SetWidth(v)
    \/ \E v \in DownloadSizes : SetHeight(v)
    \/ \E m \in DownloadModes : SetMode(m)
    \/ RenderTimerFires
    \/ DownloadClick

SpecDownload == RenderInit /\ [][DownloadNext]_vars

\* What render() computes for an image, sizes and mode: the edge mask in
\* edge mode, then the positions.
positionsFor(info, wIn, hIn, gemD, m) ==
    LET dilateR == renderDilateR(renderGemPxR(info, wIn, hIn, gemD))
        mask == IF m = "edge"
                THEN renderEdgeMask(sobelEdges(info.data, info.w, info.h),
                                    info.w, info.h, thresholdInput, dilateR)
                ELSE noMask
    IN  renderPositions(info, wIn, hIn, gemD, m, mask)

\* A size the sampler can work with: a number above 0.
PositiveSize(s) == ~s.nan /\ s.val > 0

\* C12: the placement sampler only ever runs with a positive canvas width,
\* canvas height and element diameter: a zero, negative or non-numeric size
\* is rejected before computeGemPositions is called.
C12_InvalidSizeRejected ==
    lastRender # <<>> =>
        /\ PositiveSize(lastRender.widthMM)
        /\ PositiveSize(lastRender.heightMM)
        /\ lastRender.gemDiameter > 0

-----------------------------------------------------------------------------
(* Properties of the pipeline and of its stages                            *)

Returned(fn) == stagePc = "returned" /\ stageCall.fn = fn

\* The array a call returned.
Result == stageHeap[stageRet.ref]

\* C13: when inversion is requested, the invert stage of processImage maps
\* every value v in [0, 1] to 1 - clamp(v, eps, 1): black (0) leaves the stage
\* as 1 - eps and white (1) leaves it as 0.
C13_InvertStage ==
    (Returned("processImage") /\ stageCall.settings.invertOutput) =>
        \A i \in DOMAIN stageTrace.base :
            stageTrace.base[i] = Unit - Clamp(stageTrace.Yprocessed[i], Epsilon, Unit)

\* C14: with CLAHE off, sharpen amount 0 and both target dimensions blank,
\* processImage keeps the source width and height, and each output pixel is
\* the tone table applied to the 8-bit quantization of that pixel's
\* invert-stage value: the disabled stages leave the buffer as it is.
C14_DisabledStagesAreIdentity ==
    (/\ Returned("processImage")
     /\ ~stageCall.settings.applyClahe
     /\ stageCall.settings.sharpenAmount = 0
     /\ stageCall.settings.targetWidthIn.null
     /\ stageCall.settings.targetHeightIn.null) =>
        /\ stageRet.width = stageCall.img.width
        /\ stageRet.height = stageCall.img.height
        /\ DOMAIN Result = 0 .. stageCall.img.width * stageCall.img.height - 1
        /\ stageTrace.Yprocessed = stageTrace.Y
        /\ \A i \in DOMAIN Result :
              LET q == (2 * 255 * stageTrace.base[i] + Unit) \div (2 * Unit)
              IN  Result[i] = buildMappingLut(stageCall.settings.customGrayValues)[q]

\* Witness of C14: a two-pixel-wide image with the default calibration whose
\* output is not the lowest level everywhere.
C14_Witness ==
    /\ Returned("processImage")
    /\ ~stageCall.settings.applyClahe
    /\ stageCall.settings.sharpenAmount = 0
    /\ stageCall.settings.targetWidthIn.null
    /\ stageCall.settings.targetHeightIn.null
    /\ stageCall.settings.customGrayValues = DefaultGrayValues
    /\ stageRet.width = 2
    /\ \E i, j \in DOMAIN Result : Result[i] = 104 /\ Result[j] = 255

\* k = Math.round(n / d), said without the model's rounding operators.
IsRound(k, n, d) == 2 * d * k - d <= 2 * n /\ 2 * n < 2 * d * k + d

\* A target dimension is given when it is a positive number.
Given(t) == ~t.null /\ t.val > 0

\* C15: the output size follows the target-size rule.  Only a width given:
\* outW = round(widthIn * dpi), outH = round(h * outW / w); only a height
\* given: outH = round(heightIn * dpi), outW = round(w * outH / h); both
\* given: each is round(inches * dpi); both blank: the source size.
C15_TargetSizeRule ==
    Returned("processImage") =>
        LET tw == stageCall.settings.targetWidthIn
            th == stageCall.settings.targetHeightIn
            dpi == stageCall.settings.driverDpi
            w == stageCall.img.width
            h == stageCall.img.height
            outW == stageRet.width
            outH == stageRet.height
        IN  /\ (Given(tw) /\ ~Given(th)) =>
                  IsRound(outW, tw.val * dpi, 8) /\ IsRound(outH, h * outW, w)
            /\ (Given(th) /\ ~Given(tw)) =>
                  IsRound(outH, th.val * dpi, 8) /\ IsRound(outW, w * outH, h)
            /\ (Given(tw) /\ Given(th)) =>
                  IsRound(outW, tw.val * dpi, 8) /\ IsRound(outH, th.val * dpi, 8)
            /\ (~Given(tw) /\ ~Given(th)) => outW = w /\ outH = h
            /\ DOMAIN Result = 0 .. outW * outH - 1

\* Witness of C15: a 1 x 2 image with only the width given, 0.25 in at 72 DPI.
C15_Witness ==
    /\ Returned("processImage")
    /\ stageCall.img.width = 1 /\ stageCall.img.height = 2
    /\ stageCall.settings.targetWidthIn = [null |-> FALSE, val |-> 2]
    /\ stageCall.settings.targetHeightIn.null
    /\ stageCall.settings.driverDpi = 72
    /\ stageRet.width = 18 /\ stageRet.height = 36

\* C16: dilation is the identity at radius 0 and never shrinks the mask: a
\* pixel that is on in the mask built with a radius r1 <= r2 is on in the
\* mask built with r2, and the mask built with radius 0 is the thresholded
\* mask.
C16_DilationMonotone ==
    Returned("buildEdgeMask") =>
        LET c == stageCall
        IN  /\ c.dilateR = 0 => Result = thresholdMask(c.input, c.sensitivity)
            /\ \A r1 \in 0 .. c.dilateR :
                 \A i \in DOMAIN Result :
                    buildEdgeMask(c.input, c.w, c.h, c.sensitivity, r1)[i] = 1
                        => Result[i] = 1

\* Witness of C16: a dilation that turned on a pixel the threshold left off,
\* and did not fill the mask.
C16_Witness ==
    /\ Returned("buildEdgeMask")
    /\ stageCall.dilateR >= 1
    /\ \E i, j, k \in DOMAIN Result :
          /\ thresholdMask(stageCall.input, stageCall.sensitivity)[i] = 0
          /\ Result[i] = 1
          /\ Result[j] = 0
          /\ thresholdMask(stageCall.input, stageCall.sensitivity)[k] = 1

\* The field holds one value everywhere.
UniformField(f) == \A i, j \in DOMAIN f : f[i] = f[j]

\* C17: applyClahe on an image of one gray level g whose width and height
\* are multiples of the tile size returns g at every pixel, for every clip
\* limit.
C17_UniformUnchanged ==
    (/\ Returned("applyClahe")
     /\ UniformField(stageCall.input)
     /\ stageCall.w % stageCall.tileSize = 0
     /\ stageCall.h % stageCall.tileSize = 0) =>
        Result = stageCall.input

\* C18: with a tile size of at least both image dimensions applyClahe uses
\* one tile and is a global histogram equalization: one table T, built from
\* the histogram of the whole image, and output[i] = T[input[i]].
C18_SingleTileGlobal ==
    (/\ Returned("applyClahe")
     /\ stageCall.tileSize >= stageCall.w
     /\ stageCall.tileSize >= stageCall.h) =>
        LET T == tileLut(stageCall.input, DOMAIN stageCall.input, stageCall.clipLimit)
        IN  /\ tileCount(stageCall.w, stageCall.tileSize) = 1
            /\ tileCount(stageCall.h, stageCall.tileSize) = 1
            /\ DOMAIN Result = DOMAIN stageCall.input
            /\ \A i \in DOMAIN Result : Result[i] = T[stageCall.input[i]]

\* Witness of C18: a 2 x 2 image of two gray levels under one 4-pixel tile,
\* whose levels the equalization moved.
C18_Witness ==
    /\ Returned("applyClahe")
    /\ stageCall.w = 2 /\ stageCall.h = 2 /\ stageCall.tileSize = 4
    /\ ~UniformField(stageCall.input)
    /\ \E i \in DOMAIN Result : Result[i] # stageCall.input[i]
    /\ ~UniformField(Result)

\* C19: gaussBlur and separableBlur return an unmodified copy of their input
\* whenever sigma is below 0.5.
C19_SmallSigmaIsCopy ==
    ((Returned("gaussBlur") \/ Returned("separableBlur")) /\ stageCall.sigma < 5) =>
        Result = stageCall.input

-----------------------------------------------------------------------------
(* Order of the placed elements                                            *)

\* C23: the list computeGemPositions returns is in row-major order: y never
\* decreases along the list and, among elements with the same y, x strictly
\* increases.
C23_RowMajorOrder ==
    gemPc = "returned" =>
        \A i, j \in 1 .. Len(positions) :
            i < j =>
                /\ positions[i].y <= positions[j].y
                /\ positions[i].y = positions[j].y => positions[i].x < positions[j].x

\* Witness of C23: a hex grid that placed two elements in its first row and
\* an element in a later row.
C23_Witness ==
    /\ gemPc = "returned"
    /\ opts.gridType = "hex"
    /\ \E i, j, k \in 1 .. Len(positions) :
          /\ positions[i].y = positions[j].y /\ positions[i].x < positions[j].x
          /\ positions[j].y < positions[k].y

-----------------------------------------------------------------------------
(* The indices computeGemPositions reads                                   *)

\* The candidate cells that pass the canvas test, which are the cells the
\* placement decision and the colour sampling are run for.
OnCanvas(o) == CandidateCells(o) \ EdgeRejected(o)

\* The pixel indices of an image of imgW x imgH pixels: pixel p is
\* src[4 * p .. 4 * p + 3], inside [0, 4 * imgW * imgH) exactly when p is one
\* of these.
PixelIndices(o) == 0 .. o.imgW * o.imgH - 1

\* C30: computeGemPositions reads inside its buffers only: for every cell it
\* samples, each pixel the sampling loops read is a pixel of the image, and
\* in edge mode with a mask the mask entry it reads is an entry of the mask,
\* also when the rounded centre is column imgW or row imgH.
C30_ReadsInBounds ==
    gemPc = "returned" =>
        \A rc \in OnCanvas(opts) :
            LET cx == cellCx(opts, rc[1], rc[2])
                cy == cellCy(opts, rc[1])
                idxs == samplePixels(opts, cx, cy)
            IN  /\ \A k \in 1 .. Len(idxs) : idxs[k] \in PixelIndices(opts)
                /\ (opts.mode = "edge" /\ opts.edgeMask # noMask) =>
                      /\ maskIndex(opts, cx, cy) \in PixelIndices(opts)
                      /\ maskIndex(opts, cx, cy) \in DOMAIN opts.edgeMask

\* Witness of C30: an edge-mode call with a mask and a cell on the canvas
\* whose rounded centre is column imgW, and a cell whose sampling disc
\* reaches past the image and still samples a pixel.
C30_Witness ==
    /\ gemPc = "returned"
    /\ opts.mode = "edge" /\ opts.edgeMask # noMask
    /\ \E rc \in OnCanvas(opts) : cellCx(opts, rc[1], rc[2]) = opts.imgW
    /\ \E rc \in OnCanvas(opts) :
          LET cx == cellCx(opts, rc[1], rc[2])
              cy == cellCy(opts, rc[1])
          IN  /\ cx - gemPxR(opts) < 0
              /\ samplePixels(opts, cx, cy) # <<>>

-----------------------------------------------------------------------------
(* The invert flag and the shape of the power map                          *)

\* processImage ran with the sharpener off and no target size.
PlainRun ==
    /\ Returned("processImage")
    /\ stageCall.settings.sharpenAmount = 0
    /\ stageCall.settings.targetWidthIn.null
    /\ stageCall.settings.targetHeightIn.null

AcceptedSettings(st) ==
    /\ st.driverDpi \in MinDpi .. MaxDpi
    /\ st.targetWidthIn.null \/ st.targetWidthIn.val > 0
    /\ st.targetHeightIn.null \/ st.targetHeightIn.val > 0

\* C29: for an image of at least 1 x 1 pixels and settings readSettings
\* accepts, processImage returns a power map of width >= 1 and height >= 1
\* whose data has width x height entries.
C29_WellFormedPowerMap ==
    (Returned("processImage") /\ AcceptedSettings(stageCall.settings)) =>
        /\ stageRet.width >= 1
        /\ stageRet.height >= 1
        /\ Cardinality(DOMAIN Result) = stageRet.width * stageRet.height

-----------------------------------------------------------------------------
(* Scheduling in the 3D Engrave tool                                       *)

\* C26: at most one processing run is scheduled or executing at any time,
\* and state.processing is true while one is: it is never false while a
\* scheduled run has not finished.
C26_SingleRunInFlight ==
    /\ Len(runQueue) <= 1
    /\ runQueue # <<>> => processing

\* C27: the last selected file wins: once no load is pending and no run is
\* scheduled, the stored source image and the image the stored result was
\* computed from are the file selected last, which is the file state.file
\* names for the download.
C27_LastFileWins ==
    (stateFile # 0 /\ loading = {} /\ runQueue = <<>> /\ lastRun # <<>>) =>
        /\ originalImg = stateFile
        /\ lastRun.img = stateFile

-----------------------------------------------------------------------------
(* The caches and the download of the Bedazzle tool                        *)

\* C24: the cached edge magnitudes are never stale: whenever there is a
\* cache, which render() then uses in edge mode, it is sobelEdges of the
\* image stored in pixelInfo.
C24_EdgeCacheFresh ==
    edgeMag # <<>> =>
        /\ pixelInfo # <<>>
        /\ edgeMag = sobelEdges(pixelInfo.data, pixelInfo.w, pixelInfo.h)

\* Witness of C24: edge mode with a cache for a 2 x 2 image that a render
\* filled, and a width changed since that render.
C24_Witness ==
    /\ mode = "edge"
    /\ edgeMag # <<>>
    /\ pixelInfo # <<>> /\ pixelInfo.w = 2 /\ pixelInfo.h = 2
    /\ lastRender # <<>> /\ lastRender.mode = "edge"
    /\ lastRender.widthMM # widthInput

\* C28: the SVG the Download button writes is consistent: its positions are
\* the positions computed for the image, canvas width and height, gem
\* diameter and mode that are current at the click, also when the click
\* comes before the debounced render has run.
C28_DownloadConsistent ==
    lastDownload # <<>> =>
        lastDownload.positions =
            positionsFor(lastDownload.pixelInfo, lastDownload.widthMM,
                         lastDownload.heightMM, lastDownload.gemDiameter,
                         lastDownload.mode)

-----------------------------------------------------------------------------
(* The download interceptor (src/lazar/assets/dpifix.js)                   *)
(*                                                                         *)
(* A file is [format, res]: its real format and the raw resolution field   *)
(* it carries: pixels per metre of the pHYs chunk (png) or of the DIB      *)
(* header (bmp), the JFIF density in dots per inch (jpg); 0 when the file  *)
(* carries no resolution, as every canvas export does.  One anchor         *)
(* element is modelled; the host creates a fresh one for each export.      *)

\* `window.__lazarDpi || 300`.
FallbackDpi == 300
EffectiveDpi == IF lazarDpi = 0 THEN FallbackDpi ELSE lazarDpi

\* At or below this DPI the patched click passes the download through.
PassThroughDpi == 72

\* Fetches of one anchor that may be in flight together.
MaxFetch == 2

\* buildPhysChunk: ppm = Math.round(dpi / 0.0254).
buildPhysChunk(dpi) == RoundDiv(dpi * 10000, 254)

\* injectPngDpi: an existing pHYs chunk is overwritten, a missing one is
\* inserted before the first IDAT; bytes without an IDAT chunk stay as
\* they are.
injectPngDpi(file, dpi) ==
    IF file.format = "png" THEN [file EXCEPT !.res = buildPhysChunk(dpi)]
    ELSE file

\* injectJpegDpi: after the SOI check, density units 1 and the DPI as a
\* big-endian uint16 in X and Y density (patched or inserted APP0).
injectJpegDpi(file, dpi) ==
    IF file.format = "jpg" THEN [file EXCEPT !.res = dpi % 65536]
    ELSE file

\* injectBmpDpi: after the "BM" check, ppm into biX/YPelsPerMeter.
injectBmpDpi(file, dpi) ==
    IF file.format = "bmp" THEN [file EXCEPT !.res = buildPhysChunk(dpi)]
    ELSE file

\* injectDpi: <<>> stands for null (unsupported format).
injectDpi(file, dpi, format) ==
    CASE format = "png" -> injectPngDpi(file, dpi)
      [] format \in {"jpg", "jpeg"} -> injectJpegDpi(file, dpi)
      [] format = "bmp" -> injectBmpDpi(file, dpi)
      [] OTHER -> <<>>

\* getFormat, on the extension of the file name; "" stands for null.
getFormat(ext) ==
    CASE ext = "png" -> "png"
      [] ext \in {"jpg", "jpeg"} -> "jpg"
      [] ext = "bmp" -> "bmp"
      [] OTHER -> ""

\* getFormatFromMime, on the MIME type of the data: URL, which is the real
\* format of the bytes; "" stands for null.
getFormatFromMime(file) ==
    IF file.format \in {"png", "jpg", "bmp"} THEN file.format ELSE ""

\* The resolution in dots per inch a reader finds in a saved file; 0 when
\* the file carries none.
resolutionDpi(file) ==
    IF file.format = "jpg" THEN file.res
    ELSE RoundDiv(file.res * 254, 10000)

\* origClick: the browser saves the bytes the anchor's href points to.
\* dpi is window.__lazarDpi as the click() call that led here found it.
origClick(file, name, dpi) ==
    lastSaved' = [file |-> file, download |-> name, dpi |-> dpi]

\* The values the DPI inputs may hold when they change.
DpiInputs == {0, 1, 72, 73, 300, 2400, 2401}
Extensions == {"png", "jpg", "jpeg", "bmp", "webp"}
Schemes == {"data", "blob"}

\* The bytes a canvas export of that name holds: no resolution.
exportFile(ext) ==
    [format |-> IF getFormat(ext) = "" THEN ext ELSE getFormat(ext), res |-> 0]

DpifixInit ==
    /\ lazarDpi = FallbackDpi
    /\ anchorHref = <<>> /\ anchorDownload = ""
    /\ pendingDownloads = FALSE /\ fetches = <<>> /\ lastSaved = <<>>
    /\ GemIdle
    /\ LutIdle
    /\ E3dIdle
    /\ StageIdle
    /\ BdzIdle
    /\ DitherIdle

\* updateDpi of watchDpiInput / watchEasyModeDpi.
SetDpi(val) ==
    /\ lazarDpi' = IF val >= 1 /\ val <= 2400 THEN val ELSE lazarDpi
    /\ UNCHANGED <<anchorHref, anchorDownload, pendingDownloads, fetches,
                   lastSaved>>
    /\ UNCHANGED <<gemVars, lutVars, e3dVars, stageVars, bdzVars, ditherVars>>

\* The host makes a fresh anchor for an export (downloadResult:
\* createElement('a'), href, download); a new element is in no WeakSet.
\* The earlier element's fetches have settled.
CreateAnchor(scheme, ext) ==
    /\ fetches = <<>>
    /\ anchorHref' = [scheme |-> scheme, file |-> exportFile(ext)]
    /\ anchorDownload' = ext
    /\ pendingDownloads' = FALSE
    /\ UNCHANGED <<lazarDpi, fetches, lastSaved>>
    /\ UNCHANGED <<gemVars, lutVars, e3dVars, stageVars, bdzVars, ditherVars>>

\* HTMLAnchorElement.prototype.click as patched.
Click ==
    LET dpi == EffectiveDpi
        format == getFormat(anchorDownload)
    IN
    /\ anchorHref # <<>>
    /\ IF anchorDownload = "" \/ dpi <= PassThroughDpi \/ format = ""
       THEN /\ origClick(anchorHref.file, anchorDownload, dpi)
            /\ UNCHANGED <<anchorHref, pendingDownloads, fetches>>
       ELSE IF pendingDownloads
       THEN /\ pendingDownloads' = FALSE
            /\ origClick(anchorHref.file, anchorDownload, dpi)
            /\ UNCHANGED <<anchorHref, fetches>>
       ELSE IF anchorHref.scheme = "data"
       THEN LET mime == getFormatFromMime(anchorHref.file)
                dataFormat == IF mime = "" THEN format ELSE mime
                newBlob == injectDpi(anchorHref.file, dpi, dataFormat)
            IN  /\ anchorHref' = [scheme |-> "blob", file |-> newBlob]
                /\ pendingDownloads' = TRUE
                /\ origClick(newBlob, anchorDownload, dpi)
                /\ UNCHANGED fetches
       ELSE /\ Len(fetches) < MaxFetch
            /\ fetches' = Append(fetches, [file |-> anchorHref.file, dpi |-> dpi,
                                           downloadName |-> anchorDownload])
            /\ UNCHANGED <<anchorHref, pendingDownloads, lastSaved>>
    /\ UNCHANGED <<lazarDpi, anchorDownload>>
    /\ UNCHANGED <<gemVars, lutVars, e3dVars, stageVars, bdzVars, ditherVars>>

\* fetch(href).then(arrayBuffer).then(...) of the blob: branch.
FetchDone ==
    /\ fetches # <<>>
    /\ LET f == Head(fetches)
           newBlob == injectDpi(f.file, f.dpi, getFormat(f.downloadName))
       IN  /\ anchorHref' = [scheme |-> "blob", file |-> newBlob]
           /\ anchorDownload' = f.downloadName
           /\ pendingDownloads' = TRUE
           /\ origClick(newBlob, f.downloadName, f.dpi)
    /\ fetches' = Tail(fetches)
    /\ UNCHANGED lazarDpi
    /\ UNCHANGED <<gemVars, lutVars, e3dVars, stageVars, bdzVars, ditherVars>>

DpifixNext ==
    \/ \E val \in DpiInputs : SetDpi(val)
    \/ \E scheme \in Schemes, ext \in Extensions : CreateAnchor(scheme, ext)
    \/ Click
    \/ FetchDone

SpecDpifix == DpifixInit /\ [][DpifixNext]_vars

\* C21: every image download is saved with the current DPI embedded: the
\* bytes saved for a .png, .jpg, .jpeg or .bmp download carry, as their
\* resolution, the value window.__lazarDpi had at the click.
C21_DpiEmbedded ==
    (lastSaved # <<>> /\ getFormat(lastSaved.download) # "") =>
        resolutionDpi(lastSaved.file) = lastSaved.dpi

-----------------------------------------------------------------------------
(* The dithering fix (src/lazar/assets/ditherfix.js)                       *)
(*                                                                         *)
(* The content of a canvas is [size, passes]: its dimensions (one number   *)
(* for width x height) and how many dithering passes its pixels went       *)
(* through, 0 for undithered image data.  The images have visible content  *)
(* at the spots hasContent and imageDataHasContent sample.  The host       *)
(* application is modelled as the header of ditherfix.js describes it: its *)
(* dithering handler reads the backup canvas (Ne) and draws the display    *)
(* canvas (ye); crop, resize and text operations bake the display canvas   *)
(* into the backup canvas.                                                 *)

\* Dithering passes a canvas may accumulate.
MaxPasses == 2

\* Canvas dimensions, as one number for width x height.
MaxCanvas == 2
CanvasSizes == 1..MaxCanvas

\* findBackupCanvas: the hidden canvas with positive dimensions (TRUE when
\* there is one).
findBackupCanvas == backupData # <<>> /\ backupData.size > 0

\* hasContent, of the backup canvas.
hasContent == backupData # <<>> /\ backupData.size > 0

\* imageDataHasContent, of pristineData.
imageDataHasContent == pristineData # <<>> /\ pristineData.size > 0

\* What restoreBackup leaves in the backup canvas: the pristine bytes when
\* the dimensions match, the pristine image scaled to the canvas otherwise,
\* the canvas as it is when the restore is skipped.
restoredBackup ==
    IF pristineData = <<>> \/ ~findBackupCanvas \/ ~snapshotReady
        \/ ~imageDataHasContent
    THEN backupData
    ELSE IF backupData.size = pristineData.size THEN pristineData
    ELSE [pristineData EXCEPT !.size = backupData.size]

DitherInit ==
    /\ backupData = <<>> /\ displayData = <<>> /\ pristineData = <<>>
    /\ snapshotReady = FALSE /\ prevSize = 0 /\ modalOpen = FALSE
    /\ modalWasOpen = FALSE /\ snapshotTimers = {} /\ ditherInput = <<>>
    /\ GemIdle
    /\ LutIdle
    /\ E3dIdle
    /\ StageIdle
    /\ BdzIdle
    /\ DpifixIdle

\* snapshotPristine, as the primed variables it assigns.
snapshotPristine ==
    IF findBackupCanvas /\ hasContent
    THEN /\ pristineData' = backupData
         /\ prevSize' = backupData.size
         /\ snapshotReady' = TRUE
    ELSE UNCHANGED <<pristineData, prevSize, snapshotReady>>

\* The host loads an image into both canvases.
HostLoadImage(size) ==
    /\ ~modalOpen
    /\ backupData' = [size |-> size, passes |-> 0]
    /\ displayData' = [size |-> size, passes |-> 0]
    /\ UNCHANGED <<pristineData, snapshotReady, prevSize, modalOpen,
                   modalWasOpen, snapshotTimers, ditherInput>>
    /\ UNCHANGED <<gemVars, lutVars, e3dVars, stageVars, bdzVars, dpifixVars>>

\* poll: one animation frame.
Poll ==
    /\ snapshotTimers' =
           IF findBackupCanvas /\ backupData.size # prevSize
           THEN snapshotTimers \cup {"poll"} ELSE snapshotTimers
    /\ UNCHANGED <<backupData, displayData, pristineData, snapshotReady,
                   prevSize, modalOpen, modalWasOpen, ditherInput>>
    /\ UNCHANGED <<gemVars, lutVars, e3dVars, stageVars, bdzVars, dpifixVars>>

\* A 300 ms timer of poll or of domObserver fires.
SnapshotTimerFires(t) ==
    /\ t \in snapshotTimers
    /\ snapshotTimers' = snapshotTimers \ {t}
    /\ snapshotPristine
    /\ UNCHANGED <<backupData, displayData, modalOpen, modalWasOpen,
                   ditherInput>>
    /\ UNCHANGED <<gemVars, lutVars, e3dVars, stageVars, bdzVars, dpifixVars>>

\* A click on 'Apply Dithering' / 'Re-Apply Dithering': the capture-phase
\* interceptor, then the host's dithering handler, which reads the backup
\* canvas and draws the dithered image on the display canvas.
DitherClick ==
    /\ findBackupCanvas /\ ~modalOpen
    /\ \E backup \in {IF snapshotReady THEN restoredBackup ELSE backupData} :
        /\ backup.passes < MaxPasses
        /\ IF snapshotReady
           THEN UNCHANGED <<pristineData, prevSize, snapshotReady>>
           ELSE snapshotPristine
        /\ backupData' = backup
        /\ ditherInput' = backup
        /\ displayData' = [backup EXCEPT !.passes = @ + 1]
    /\ UNCHANGED <<modalOpen, modalWasOpen, snapshotTimers>>
    /\ UNCHANGED <<gemVars, lutVars, e3dVars, stageVars, bdzVars, dpifixVars>>

\* The host opens a crop, resize or text modal; domObserver notes it.
OpenModal ==
    /\ findBackupCanvas /\ ~modalOpen
    /\ modalOpen' = TRUE
    /\ modalWasOpen' = TRUE
    /\ UNCHANGED <<backupData, displayData, pristineData, snapshotReady,
                   prevSize, snapshotTimers, ditherInput>>
    /\ UNCHANGED <<gemVars, lutVars, e3dVars, stageVars, bdzVars, dpifixVars>>

\* The modal's operation is applied: the host bakes the display canvas into
\* the backup canvas, at the new dimensions, and removes the modal;
\* domObserver arms its timer.
ApplyModal(size) ==
    /\ modalOpen
    /\ backupData' = [displayData EXCEPT !.size = size]
    /\ displayData' = [displayData EXCEPT !.size = size]
    /\ modalOpen' = FALSE
    /\ snapshotTimers' = IF modalWasOpen THEN snapshotTimers \cup {"observer"}
                         ELSE snapshotTimers
    /\ modalWasOpen' = FALSE
    /\ UNCHANGED <<pristineData, snapshotReady, prevSize, ditherInput>>
    /\ UNCHANGED <<gemVars, lutVars, e3dVars, stageVars, bdzVars, dpifixVars>>

\* The modal is dismissed without its operation; domObserver arms its timer.
CancelModal ==
    /\ modalOpen
    /\ modalOpen' = FALSE
    /\ snapshotTimers' = IF modalWasOpen THEN snapshotTimers \cup {"observer"}
                         ELSE snapshotTimers
    /\ modalWasOpen' = FALSE
    /\ UNCHANGED <<backupData, displayData, pristineData, snapshotReady,
                   prevSize, ditherInput>>
    /\ UNCHANGED <<gemVars, lutVars, e3dVars, stageVars, bdzVars, dpifixVars>>

DitherNext ==
    \/ \E size \in CanvasSizes : HostLoadImage(size)
    \/ Poll
    \/ \E t \in {"poll", "observer"} : SnapshotTimerFires(t)
    \/ DitherClick
    \/ OpenModal
    \/ \E size \in CanvasSizes : ApplyModal(size)
    \/ CancelModal

SpecDither == DitherInit /\ [][DitherNext]_vars

\* C22: dithering never stacks: the backup canvas holds undithered image
\* data at the moment the host's dithering handler runs, that is, the data
\* the handler read went through no dithering pass.
C22_NeverStacks ==
    ditherInput # <<>> => ditherInput.passes = 0

====
